---- MODULE Spec2Model ----
(***************************************************************************)
(* A model of the forge agent runtime: the structured edit tool            *)
(* (forge_tool/src/fs/fs_replace.rs), the tool dispatcher                  *)
(* (forge_tool/src/tool_service.rs) and the orchestrator                   *)
(* (forge_domain/src/orch.rs).                                             *)
(*                                                                         *)
(* Strings are sequences of one-character tokens; "CR" and "LF" stand for  *)
(* the carriage return and the line feed.                                  *)
(***************************************************************************)
EXTENDS Integers, Sequences, FiniteSets, TLC

\* ------------------------------------------------------------------------
\* Strings
\* ------------------------------------------------------------------------

Min(S) == CHOOSE x \in S : \A y \in S : x <= y

\* str::find: the 0-based index of the first occurrence, -1 for None.
Find(hay, needle) ==
    LET hits == { i \in 0..(Len(hay) - Len(needle)) :
                    SubSeq(hay, i + 1, i + Len(needle)) = needle }
    IN  IF hits = {} THEN -1 ELSE Min(hits)

\* String::replace_range(a..b, r) is defined when a <= b <= len; it panics
\* otherwise.
RangeOk(s, a, b) == 0 <= a /\ a <= b /\ b <= Len(s)

ReplaceRange(s, a, b, r) == SubSeq(s, 1, a) \o r \o SubSeq(s, b + 1, Len(s))

\* text.replace("\r\n", "\n").replace('\r', "\n")
RECURSIVE NormalizeCrLf(_)
NormalizeCrLf(s) ==
    IF s = <<>> THEN <<>>
    ELSE IF Head(s) = "CR"
         THEN IF Len(s) >= 2 /\ s[2] = "LF"
              THEN <<"LF">> \o NormalizeCrLf(SubSeq(s, 3, Len(s)))
              ELSE <<"LF">> \o NormalizeCrLf(Tail(s))
         ELSE <<Head(s)>> \o NormalizeCrLf(Tail(s))

\* ------------------------------------------------------------------------
\* dissimilar::diff(text1, text2): a sequence of Equal / Delete / Insert
\* chunks; the Equal and Delete texts concatenate to text1, the Equal and
\* Insert texts to text2.
\* ------------------------------------------------------------------------

Chunk(kind, text) == [kind |-> kind, text |-> text]

\* The longest common substring as <<length, start in a, start in b>>
\* (0-based, the leftmost in a, then in b), <<0, 0, 0>> when there is none.
LongestCommon(a, b) ==
    LET cands == { <<n, i, j>> \in (1..Len(a)) \X (0..Len(a)) \X (0..Len(b)) :
                     /\ i + n <= Len(a)
                     /\ j + n <= Len(b)
                     /\ SubSeq(a, i + 1, i + n) = SubSeq(b, j + 1, j + n) }
    IN  IF cands = {} THEN <<0, 0, 0>>
        ELSE LET n == CHOOSE m \in { c[1] : c \in cands } :
                          \A c \in cands : c[1] <= m
                 i == Min({ c[2] : c \in { d \in cands : d[1] = n } })
                 j == Min({ c[3] : c \in { d \in cands : d[1] = n /\ d[2] = i } })
             IN  <<n, i, j>>

RECURSIVE DiffMain(_, _)
DiffMain(a, b) ==
    IF a = <<>> /\ b = <<>> THEN <<>>
    ELSE IF a = b THEN << Chunk("Equal", a) >>
    ELSE IF a = <<>> THEN << Chunk("Insert", b) >>
    ELSE IF b = <<>> THEN << Chunk("Delete", a) >>
    ELSE
      LET lc == LongestCommon(a, b)
      IN  IF lc[1] = 0
          THEN << Chunk("Delete", a), Chunk("Insert", b) >>
          ELSE DiffMain(SubSeq(a, 1, lc[2]), SubSeq(b, 1, lc[3]))
               \o << Chunk("Equal", SubSeq(a, lc[2] + 1, lc[2] + lc[1])) >>
               \o DiffMain(SubSeq(a, lc[2] + lc[1] + 1, Len(a)),
                           SubSeq(b, lc[3] + lc[1] + 1, Len(b)))

\* ------------------------------------------------------------------------
\* fs_replace.rs: the fuzzy step of apply_changes
\* ------------------------------------------------------------------------

\* The scan over the chunks: best_match as <<start, len>> (<<-1, 0>> for
\* None). k is the index of the chunk looked at, pos is current_pos, and
\* best is <<start, len>> of the best Equal chunk so far; an Equal chunk
\* replaces the best only when its score is strictly larger. current_pos
\* advances over every chunk, Insert chunks included.
RECURSIVE BestMatch(_, _, _, _)
BestMatch(chunks, k, pos, best) ==
    IF k > Len(chunks) THEN best
    ELSE LET c == chunks[k]
             better == c.kind = "Equal" /\ Len(c.text) > best[2]
         IN  BestMatch(chunks, k + 1, pos + Len(c.text),
                       IF better THEN <<pos, Len(c.text)>> ELSE best)

\* best_score > 0.7, with best_score = len / search_len.
ScoreNum == 7
ScoreDen == 10
AboveThresholdStrict(len, searchLen) == ScoreDen * len > ScoreNum * searchLen
AboveThreshold(len, searchLen) == AboveThresholdStrict(len, searchLen)

\* ------------------------------------------------------------------------
\* JSON: serde_json::from_str on a text given as a sequence of tokens. The
\* texts are objects of string members; " " is insignificant whitespace.
\* A value is the set of the object's <<key, value>> members.
\* ------------------------------------------------------------------------

JsonKeys == { "name", "value", "topic", "path" }
JsonVals == { "k", "out", "v", "x", "p" }

RECURSIVE StripSpace(_)
StripSpace(t) ==
    IF t = <<>> THEN <<>>
    ELSE IF Head(t) = " " THEN StripSpace(Tail(t))
    ELSE <<Head(t)>> \o StripSpace(Tail(t))

JsonOk(v) == [ok |-> TRUE, value |-> v]
JsonError == [ok |-> FALSE, value |-> {}]

ParseJson(text) ==
    LET t == StripSpace(text)
        n == Len(t)
        inner == SubSeq(t, 2, n - 1)
        m == Len(inner)
        count == (m + 1) \div 4
        wellFormed ==
            /\ m % 4 = 3
            /\ \A i \in 0..(count - 1) :
                 /\ inner[4 * i + 1] \in JsonKeys
                 /\ inner[4 * i + 2] = ":"
                 /\ inner[4 * i + 3] \in JsonVals
                 /\ i > 0 => inner[4 * i] = ","
            /\ \A i, j \in 0..(count - 1) :
                 inner[4 * i + 1] = inner[4 * j + 1] => i = j
    IN  IF n < 2 \/ t[1] # "{" \/ t[n] # "}" THEN JsonError
        ELSE IF m = 0 THEN JsonOk({})
        ELSE IF wellFormed
             THEN JsonOk({ <<inner[4 * i + 1], inner[4 * i + 3]>> : i \in 0..(count - 1) })
             ELSE JsonError

\* serde_json::to_string of a string value: the text in quotes.
JsonQuote(v) == <<"\"">> \o v \o <<"\"">>

\* ------------------------------------------------------------------------
\* Tool calls and completion messages
\* ------------------------------------------------------------------------

NoId == ""

ToolCallFull(name, id, args) ==
    [kind |-> "Full", name |-> name, call_id |-> id, arguments |-> args,
     arguments_part |-> <<>>]

\* A partial tool call: an optional call id, an optional name (fragment)
\* and a fragment of the arguments text. "" stands for None.
ToolCallPart(name, id, part) ==
    [kind |-> "Part", name |-> name, call_id |-> id, arguments |-> {},
     arguments_part |-> part]

\* One item of the completion stream: Ok(ChatCompletionMessage) or Err.
Message(content, toolCalls) == [err |-> FALSE, content |-> content, tool_call |-> toolCalls]
StreamError == [err |-> TRUE, content |-> <<>>, tool_call |-> <<>>]

RECURSIVE SelectSeq2(_, _)
SelectSeq2(s, set) ==
    IF s = <<>> THEN <<>>
    ELSE IF Head(s) \in set THEN <<Head(s)>> \o SelectSeq2(Tail(s), set)
    ELSE SelectSeq2(Tail(s), set)

RECURSIVE Flatten(_)
Flatten(ss) == IF ss = <<>> THEN <<>> ELSE Head(ss) \o Flatten(Tail(ss))

CollectOk(content, calls) == [ok |-> TRUE, content |-> content, tool_calls |-> calls]
CollectErr == [ok |-> FALSE, content |-> <<>>, tool_calls |-> <<>>]

\* ToolCallFull::try_from_parts: consecutive fragments are grouped by call
\* id (a fragment without an id continues the group); the name and the
\* arguments of a group are the concatenations of its fragments'. A group
\* is a Full call when its name is not empty and its arguments parse; a
\* group whose arguments do not parse is an error.
GroupId(g) ==
    LET ids == { g[i].call_id : i \in 1..Len(g) } \ {NoId}
    IN  IF ids = {} THEN NoId ELSE CHOOSE x \in ids : TRUE

RECURSIVE GroupParts(_, _, _)
GroupParts(parts, cur, done) ==
    IF parts = <<>> THEN IF cur = <<>> THEN done ELSE Append(done, cur)
    ELSE LET pt == Head(parts)
             fresh == /\ cur # <<>>
                      /\ pt.call_id # NoId
                      /\ GroupId(cur) # NoId
                      /\ pt.call_id # GroupId(cur)
         IN  IF fresh THEN GroupParts(Tail(parts), <<pt>>, Append(done, cur))
             ELSE GroupParts(Tail(parts), Append(cur, pt), done)

RECURSIVE ConcatNames(_)
ConcatNames(g) == IF g = <<>> THEN "" ELSE Head(g).name \o ConcatNames(Tail(g))

GroupArgs(g) == Flatten([i \in 1..Len(g) |-> g[i].arguments_part])

try_from_parts(parts) ==
    LET groups == GroupParts(parts, <<>>, <<>>)
        named == SelectSeq2(groups, { g \in { groups[i] : i \in 1..Len(groups) } :
                                        ConcatNames(g) # "" })
    IN  IF \E i \in 1..Len(named) : ~ParseJson(GroupArgs(named[i])).ok
        THEN CollectErr
        ELSE CollectOk(<<>>,
                [i \in 1..Len(named) |->
                    ToolCallFull(ConcatNames(named[i]), GroupId(named[i]),
                                 ParseJson(GroupArgs(named[i])).value)])

\* ToolCallFull::try_from_xml: every <tool_call> name ... </tool_call>
\* block of the text is decoded into a Full call (without a call id).
RECURSIVE try_from_xml(_)
try_from_xml(content) ==
    LET open == Find(content, <<"<tool_call>">>)
        rest == SubSeq(content, open + 2, Len(content))
        close == Find(rest, <<"</tool_call>">>)
    IN  IF open < 0 THEN CollectOk(<<>>, <<>>)
        ELSE IF close < 1 THEN CollectErr
        ELSE LET args == ParseJson(SubSeq(rest, 2, close))
                 more == try_from_xml(SubSeq(rest, close + 2, Len(rest)))
             IN  IF ~args.ok \/ ~more.ok THEN CollectErr
                 ELSE CollectOk(<<>>,
                        <<ToolCallFull(rest[1], NoId, args.value)>> \o more.tool_calls)

\* message.tool_call.first() of each message that has a tool call.
FirstToolCallsSkipFirst(messages) ==
    LET with == SelectSeq2(messages,
                    { m \in { messages[i] : i \in 1..Len(messages) } : m.tool_call # <<>> })
    IN  [i \in 1..(Len(with) - 1) |-> with[i + 1].tool_call[1]]
FirstToolCalls(messages) ==
    LET with == SelectSeq2(messages,
                    { m \in { messages[i] : i \in 1..Len(messages) } : m.tool_call # <<>> })
    IN  [i \in 1..Len(with) |-> with[i].tool_call[1]]

IsKind(list, kind) == { c \in { list[i] : i \in 1..Len(list) } : c.kind = kind }

\* Orchestrator::collect_messages (lines 114-152): any error item fails the
\* whole collection; the content is the concatenation of the deltas; the
\* tool calls are the Full ones, then the ones reassembled from the partial
\* first tool call of each message, then the ones decoded from the text.
collect_messages(response) ==
    IF \E i \in 1..Len(response) : response[i].err THEN CollectErr
    ELSE
      LET content == Flatten([i \in 1..Len(response) |-> response[i].content])
          allCalls == Flatten([i \in 1..Len(response) |-> response[i].tool_call])
          full == SelectSeq2(allCalls, IsKind(allCalls, "Full"))
          firsts == FirstToolCalls(response)
          partial == try_from_parts(SelectSeq2(firsts, IsKind(firsts, "Part")))
          xml == try_from_xml(content)
      IN  IF ~partial.ok \/ ~xml.ok THEN CollectErr
          ELSE CollectOk(content, full \o partial.tool_calls \o xml.tool_calls)

\* ------------------------------------------------------------------------
\* State
\* ------------------------------------------------------------------------

VARIABLES
    \* the structured edit tool (one call of apply_changes)
    fs,         \* the file system: path -> [exists, data]
    fs0,        \* the file system when the call started
    path,       \* the target of the call
    blocks,     \* the parsed SEARCH/REPLACE blocks of the call
    result,     \* apply_changes' working buffer
    blockIdx,   \* the block the loop of apply_changes is at
    editPc,     \* "idle", "start", "blocks", "done"
    editRet     \* what the call returned: [kind, content]

editVars == <<fs, fs0, path, blocks, result, blockIdx, editPc, editRet>>

VARIABLES
    \* one completion stream through collect_messages
    stream,     \* the items the provider has still to deliver
    received,   \* the items collected so far
    collected,  \* collect_messages' result, once the stream has ended
    origCall,   \* the complete tool call the provider split into fragments
    emitted     \* the calls the provider completed, in that order: [call, via]

collectVars == <<stream, received, collected, origCall, emitted>>

VARIABLES
    \* the orchestrator (one call of execute)
    workflow,   \* agent id -> [ephemeral, transforms, tools]
    state,      \* Orchestrator.state: agent id -> [present, ctx]
    variables,  \* Orchestrator.variables: key -> [set, val]
    stack,      \* the init_agent invocations in progress, the innermost last
    status,     \* "idle", "running", "Ok", "ErrProvider", "ErrUndefinedVariable"
    turns,      \* provider requests made so far
    lastSvc,    \* the last call of ToolService::call: [called, call, ok, payload, result]
    sender,     \* Orchestrator.sender: a subscriber channel is attached
    channel,    \* the items sent on the subscriber channel
    writes,     \* agent id -> how many times its entry of state was written
    held        \* the locks a guard holds: a subset of {"variables", "state"}

orchVars == <<workflow, state, variables, stack, status, turns, lastSvc,
              sender, channel, writes, held>>

VARIABLES
    \* one call of Context::set_first_system_message
    ctxIn,      \* the context it is called on
    ctxText,    \* the content it is called with
    ctxOut,     \* the context it returned
    ctxPc       \* "idle", "call", "done"

ctxVars == <<ctxIn, ctxText, ctxOut, ctxPc>>

VARIABLES
    \* one call of Command::parse
    cmdIn,      \* the input string
    cmdOut,     \* what it returned: [ok, cmd]
    cmdPc       \* "idle", "call", "done"

cmdVars == <<cmdIn, cmdOut, cmdPc>>

VARIABLES
    \* one call of OpenRouter::chat and the stream it returns
    chatN,      \* how many completion events the server sends before the end
    chatEnd,    \* what ends the events: "DONE", "Upstream", "Transport"
    chatPos,    \* how many events es.next() has yielded
    chatItem,   \* the item tx.send is called with
    chatQueue,  \* the items in the channel
    chatOut,    \* the items the caller has taken from the returned stream
    chatPc      \* "idle", "loop", "send", "break", "returned", "ended"

chatVars == <<chatN, chatEnd, chatPos, chatItem, chatQueue, chatOut, chatPc>>

VARIABLES
    \* the sequential-thinking server
    tServer,    \* t_server, the server the tools/call handler captured
    thinkLog    \* the tools/call requests handled so far: [input, reply]

thinkVars == <<tServer, thinkLog>>

vars == <<editVars, collectVars, orchVars, ctxVars, cmdVars, chatVars, thinkVars>>

\* ------------------------------------------------------------------------
\* fs_replace.rs: files and paths
\* ------------------------------------------------------------------------

\* A path is <<stem, extension>>.
EPaths == { <<"a", "txt">>, <<"a", "bak">> }

\* The sibling named by the target's full name with ".bak" appended.
AppendBak(p) == <<p[1] \o "." \o p[2], "bak">>

\* The files of the directory: the targets and their siblings.
FsPaths == EPaths \cup { AppendBak(p) : p \in EPaths }

Absent == [exists |-> FALSE, data |-> <<>>]
File(c) == [exists |-> TRUE, data |-> c]

Contents == { <<>>,
              <<"x", "LF", "y">>,
              <<"x", "CR", "LF", "y">>,
              <<"a", "b", "c", "d", "e", "f", "g">> }

Searches == { <<>>,
              <<"x">>,
              <<"x", "LF", "y">>,
              <<"z", "z">>,
              <<"x", "LF", "y", "z">>,
              <<"z", "x", "LF", "y">>,
              <<"a", "b", "c", "d", "e", "f", "g", "q", "r", "s">> }

Replaces == { <<>>, <<"w">> }

Block(s, r) == [search |-> s, replace |-> r]

BlockSet == { Block(s, r) : s \in Searches, r \in Replaces }

MaxBlocks == 2

\* The blocks after the first are drawn from a smaller set.
LaterBlocks == { Block(<<"y">>, <<"w">>),
                 Block(<<"z", "z">>, <<>>),
                 Block(<<"w">>, <<"x">>) }

BlockSeqs ==
    UNION { { <<b>> \o t : b \in BlockSet, t \in [1..(n - 1) -> LaterBlocks] } :
            n \in 1..MaxBlocks }

\* path.with_extension("bak"): the extension is replaced, not appended.
backup_path(p) == <<p[1], "bak">>

NoRet == [kind |-> "none", content |-> <<>>]
RetOk(c) == [kind |-> "Ok", content |-> c]
RetErr == [kind |-> "Err", content |-> <<>>]
RetPanic == [kind |-> "Panic", content |-> <<>>]

\* persist_changes: temp_file.persist(path) renames the temporary file over
\* the target or fails and leaves the target alone. On success the backup
\* is removed if a file of that name exists; on failure a file of that name
\* is renamed over the target.
persist_changes(f, temp, p, bp, ok) ==
    IF ok
    THEN LET g == [f EXCEPT ![p] = File(temp)]
         IN  IF g[bp].exists THEN [g EXCEPT ![bp] = Absent] ELSE g
    ELSE IF f[bp].exists /\ bp # p
         THEN [f EXCEPT ![p] = f[bp], ![bp] = Absent]
         ELSE f

\* fs::copy(path, backup_path): the backup gets the target's content. When
\* both name the same file the file is opened for writing with truncation
\* while it is being read: it is likely truncated (std::fs::copy), so both
\* outcomes are possible.
CopyOutcomes(f, p, bp) ==
    IF bp = p
    THEN { f, [f EXCEPT ![p] = File(<<>>)] }
    ELSE { [f EXCEPT ![bp] = File(f[p].data)] }

\* ------------------------------------------------------------------------
\* fs_replace.rs: apply_changes
\* ------------------------------------------------------------------------

EditInit ==
    /\ fs \in { f \in [FsPaths -> {Absent} \cup { File(c) : c \in Contents }] :
                  \A p \in FsPaths \ EPaths : f[p] = Absent }
    /\ fs0 = fs
    /\ path \in EPaths
    /\ blocks \in BlockSeqs
    /\ result = <<>>
    /\ blockIdx = 1
    /\ editPc = "start"
    /\ editRet = NoRet

EditIdle ==
    /\ fs = [p \in FsPaths |-> Absent]
    /\ fs0 = fs
    /\ path = <<"a", "txt">>
    /\ blocks = <<Block(<<>>, <<>>)>>
    /\ result = <<>>
    /\ blockIdx = 1
    /\ editPc = "idle"
    /\ editRet = NoRet

\* The new file or empty search case (lines 181-191): the first block's
\* REPLACE is persisted and returned; later blocks are not looked at.
CreateOrOverwrite ==
    /\ editPc = "start"
    /\ ~fs[path].exists \/ blocks[1].search = <<>>
    /\ \E ok \in BOOLEAN :
         /\ fs' = persist_changes(fs, blocks[1].replace, path, backup_path(path), ok)
         /\ editRet' = IF ok THEN RetOk(blocks[1].replace) ELSE RetErr
    /\ result' = blocks[1].replace
    /\ editPc' = "done"
    /\ UNCHANGED <<fs0, path, blocks, blockIdx>>
    /\ UNCHANGED <<collectVars, orchVars, ctxVars, cmdVars, chatVars, thinkVars>>

\* Create backup and read existing file (lines 193-211).
BackupAndRead ==
    /\ editPc = "start"
    /\ fs[path].exists /\ blocks[1].search # <<>>
    /\ \E g \in CopyOutcomes(fs, path, backup_path(path)) :
         /\ fs' = g
         /\ result' = g[path].data
    /\ editPc' = "blocks"
    /\ UNCHANGED <<fs0, path, blocks, blockIdx, editRet>>
    /\ UNCHANGED <<collectVars, orchVars, ctxVars, cmdVars, chatVars, thinkVars>>

ExactHit(buf, b) == Find(buf, b.search) >= 0

NormalizedHit(buf, b) ==
    /\ ~ExactHit(buf, b)
    /\ Find(NormalizeCrLf(buf), NormalizeCrLf(b.search)) >= 0

FuzzyBest(buf, b) == BestMatch(DiffMain(buf, b.search), 1, 0, <<-1, 0>>)

FuzzyHit(buf, b) ==
    /\ ~ExactHit(buf, b)
    /\ ~NormalizedHit(buf, b)
    /\ FuzzyBest(buf, b)[1] >= 0
    /\ AboveThreshold(FuzzyBest(buf, b)[2], Len(b.search))

\* The range apply_changes replaces for block b in buffer buf, as
\* <<start, end>>; <<0, 0>> with no replacement when the block is skipped.
SpliceRange(buf, b) ==
    IF ExactHit(buf, b)
    THEN <<Find(buf, b.search), Find(buf, b.search) + Len(b.search)>>
    ELSE IF NormalizedHit(buf, b)
    THEN LET i == Find(NormalizeCrLf(buf), NormalizeCrLf(b.search))
         IN  <<i, i + Len(b.search)>>
    ELSE LET m == FuzzyBest(buf, b) IN <<m[1], m[1] + m[2]>>

BlockApplies(buf, b) == ExactHit(buf, b) \/ NormalizedHit(buf, b) \/ FuzzyHit(buf, b)

\* One iteration of the loop over the blocks (lines 214-258).
ApplyBlock ==
    /\ editPc = "blocks"
    /\ blockIdx <= Len(blocks)
    /\ LET b == blocks[blockIdx]
           r == SpliceRange(result, b)
       IN  \/ /\ BlockApplies(result, b)
              /\ RangeOk(result, r[1], r[2])
              /\ result' = ReplaceRange(result, r[1], r[2], b.replace)
              /\ blockIdx' = blockIdx + 1
              /\ UNCHANGED <<editPc, editRet>>
           \/ /\ BlockApplies(result, b)
              /\ ~RangeOk(result, r[1], r[2])
              /\ editPc' = "done"
              /\ editRet' = RetPanic
              /\ UNCHANGED <<result, blockIdx>>
           \/ /\ ~BlockApplies(result, b)
              /\ blockIdx' = blockIdx + 1
              /\ UNCHANGED <<result, editPc, editRet>>
    /\ UNCHANGED <<fs, fs0, path, blocks>>
    /\ UNCHANGED <<collectVars, orchVars, ctxVars, cmdVars, chatVars, thinkVars>>

\* Write the modified content (lines 260-264).
PersistModified ==
    /\ editPc = "blocks"
    /\ blockIdx > Len(blocks)
    /\ \E ok \in BOOLEAN :
         /\ fs' = persist_changes(fs, result, path, backup_path(path), ok)
         /\ editRet' = IF ok THEN RetOk(result) ELSE RetErr
    /\ editPc' = "done"
    /\ UNCHANGED <<fs0, path, blocks, result, blockIdx>>
    /\ UNCHANGED <<collectVars, orchVars, ctxVars, cmdVars, chatVars, thinkVars>>

EditNext ==
    \/ CreateOrOverwrite
    \/ BackupAndRead
    \/ ApplyBlock
    \/ PersistModified

\* ------------------------------------------------------------------------
\* ToolResult and the tool dispatcher (tool_service.rs)
\* ------------------------------------------------------------------------

\* ToolResult::from(call): the call's name and id, no content, no error.
ToolResultFrom(call) ==
    [name |-> call.name, call_id |-> call.call_id, content |-> <<>>, is_error |-> FALSE]

\* The setter content(..), and the builders success(..) and failure(..).
WithContent(r, c) == [r EXCEPT !.content = c]
Success(r, c) == [r EXCEPT !.content = c, !.is_error = FALSE]
Failure(r, c) == [r EXCEPT !.content = c, !.is_error = TRUE]

\* The registered tools, in the order the map iterates over its keys.
ToolKeys == <<"fs_read", "shell">>
Registry == { ToolKeys[i] : i \in 1..Len(ToolKeys) }

\* What an executor can answer: Ok(value) or Err(message).
ExecOutcomes == { [ok |-> TRUE, payload |-> <<"data">>],
                  [ok |-> FALSE, payload |-> <<"boom">>] }

RECURSIVE JoinComma(_)
JoinComma(names) ==
    IF names = <<>> THEN <<>>
    ELSE IF Len(names) = 1 THEN names
    ELSE <<Head(names), ", ">> \o JoinComma(Tail(names))

UnknownToolMessageBare(name) == <<"No tool with name '", name, "' was found.">>

UnknownToolMessage(name) ==
    <<"No tool with name '", name,
      "' was found. Please try again with one of these tools ">> \o JoinComma(ToolKeys)

\* The output of the match on self.tools.get(&name) (lines 42-49).
ToolOutput(call, outcome) ==
    IF call.name \in Registry THEN outcome
    ELSE [ok |-> FALSE, payload |-> UnknownToolMessage(call.name)]

\* Live::call (lines 32-57): both arms set the content only.
ToolServiceCall(call, outcome) ==
    LET output == ToolOutput(call, outcome)
    IN  IF output.ok
        THEN WithContent(ToolResultFrom(call), output.payload)
        ELSE WithContent(ToolResultFrom(call),
                         <<"<error>">> \o output.payload \o <<"</error>">>)

NoCall == ToolCallFull("", NoId, {})
NoSvc == [called |-> FALSE, call |-> NoCall, ok |-> FALSE, payload |-> <<>>,
          result |-> ToolResultFrom(NoCall)]

\* ------------------------------------------------------------------------
\* Context (context.rs)
\* ------------------------------------------------------------------------

NoToolResult == ToolResultFrom(NoCall)

ContentMessage(role, content, toolCalls) ==
    [role |-> role, content |-> content, tool_calls |-> toolCalls, result |-> NoToolResult]

ToolMessage(r) ==
    [role |-> "Tool", content |-> <<>>, tool_calls |-> <<>>, result |-> r]

\* ContextMessage::Attachments: a set of attached files.
AttachmentsMessage ==
    [role |-> "Attachments", content |-> <<>>, tool_calls |-> <<>>, result |-> NoToolResult]

EmptyContext == [messages |-> <<>>, tools |-> <<>>, tool_choice |-> "None"]

LeadingSystem(ctx) == ctx.messages # <<>> /\ ctx.messages[1].role = "System"

add_message(ctx, m) == [ctx EXCEPT !.messages = Append(@, m)]

add_tool_results(ctx, results) ==
    [ctx EXCEPT !.messages = @ \o [i \in 1..Len(results) |-> ToolMessage(results[i])]]

extend_tools(ctx, tools) == [ctx EXCEPT !.tools = @ \o tools]

\* Context::set_first_system_message (lines 183-199): the if let matches a
\* ContentMessage only, so a tool message or attachments at position 0
\* leave the context as it is.
set_first_system_message(ctx, content) ==
    IF ctx.messages = <<>>
    THEN add_message(ctx, ContentMessage("System", content, <<>>))
    ELSE IF ctx.messages[1].role \in { "Tool", "Attachments" } THEN ctx
    ELSE IF ctx.messages[1].role = "System"
         THEN [ctx EXCEPT !.messages[1].content = content]
         ELSE [ctx EXCEPT !.messages = <<ContentMessage("System", content, <<>>)>> \o @]

\* Context::to_text (lines 201-243), token by token.
MessageText(m) ==
    IF m.role = "Tool"
    THEN <<"<message role=tool>", "<tool_result>", m.result.name>>
         \o JsonQuote(m.result.content) \o <<"</tool_result>", "</message>">>
    ELSE <<"<message>", m.role, "<content>">> \o m.content \o <<"</content>">>
         \o Flatten([i \in 1..Len(m.tool_calls) |->
                        <<"<tool_call>", m.tool_calls[i].name, "</tool_call>">>])
         \o <<"</message>">>

to_text(ctx) ==
    <<"<chat_history>">>
    \o Flatten([i \in 1..Len(ctx.messages) |-> MessageText(ctx.messages[i])])
    \o <<"</chat_history>">>

\* ------------------------------------------------------------------------
\* Workflow, agents and variables
\* ------------------------------------------------------------------------

Agents == { "A", "B" }
HeadAgent == "A"

Tap(agent, input) ==
    [kind |-> "Tap", agent_id |-> agent, input |-> input, output |-> "", token_limit |-> 0]
UserT(agent, input, output) ==
    [kind |-> "User", agent_id |-> agent, input |-> input, output |-> output, token_limit |-> 0]
AssistantT(agent, limit, input, output) ==
    [kind |-> "Assistant", agent_id |-> agent, input |-> input, output |-> output,
     token_limit |-> limit]

\* The token limit of the summarising transform, counted in messages.
TokenLimit == 3

ReadVariableName == "forge_read_variable"
WriteVariableName == "forge_write_variable"

TransformChoices ==
    { [A |-> <<>>, B |-> <<>>],
      [A |-> <<Tap("B", "in")>>, B |-> <<>>],
      [A |-> <<Tap("A", "in")>>, B |-> <<>>],
      [A |-> <<UserT("B", "in", "out")>>, B |-> <<>>],
      [A |-> <<AssistantT("B", TokenLimit, "in", "out")>>, B |-> <<>>],
      [A |-> <<>>, B |-> <<Tap("Z", "in")>>],
      [A |-> <<>>, B |-> <<Tap("A", "in")>>] }

Workflows ==
    { [a \in Agents |->
         [ephemeral |-> IF a = "A" THEN eA ELSE eB,
          transforms |-> t[a],
          tools |-> IF a = "A" THEN { "fs_read", "B", WriteVariableName }
                    ELSE { ReadVariableName, WriteVariableName }]] :
      eA \in BOOLEAN, eB \in BOOLEAN, t \in TransformChoices }

\* Workflow::find_agent: the agent of that id, if there is one.
find_agent(name) == name \in Agents

VarKeys == { "k", "out" }
Unset == [set |-> FALSE, val |-> <<>>]

\* A Variables value local to a call is a set of <<key, value>> pairs.
\* Variables::from(arguments): one variable per member of the object.
VariablesFrom(arguments) == { <<m[1], <<m[2]>>>> : m \in arguments }

InputKeyOrder == <<"task", "topic", "name", "value", "path", "in">>

\* agent.user_prompt.render(input): the prompt with the input's values.
RenderUser(agent, input) ==
    <<"user-prompt", agent>>
    \o Flatten([i \in 1..Len(InputKeyOrder) |->
          LET hit == { m \in input : m[1] = InputKeyOrder[i] }
          IN  IF hit = {} THEN <<>>
              ELSE <<InputKeyOrder[i]>> \o (CHOOSE m \in hit : TRUE)[2]])

\* ------------------------------------------------------------------------
\* orch.rs: contexts and variable tools
\* ------------------------------------------------------------------------

\* init_tool_definitions (lines 78-90): the registry's list and the two
\* variable tools, filtered by the agent's tools.
ToolList == ToolKeys \o <<ReadVariableName, WriteVariableName>>

init_tool_definitions(agent) ==
    SelectSeq2(ToolList, workflow[agent].tools)

RenderSystem(agent) ==
    <<"system-prompt", agent>> \o init_tool_definitions(agent)

\* init_agent_context (lines 92-112)
init_agent_context(agent, input) ==
    extend_tools(
        add_message(set_first_system_message(EmptyContext, RenderSystem(agent)),
                    ContentMessage("User", RenderUser(agent, input), <<>>)),
        init_tool_definitions(agent))

Member(arguments, key) == { m[2] : m \in { x \in arguments : x[1] = key } }

\* ReadVariable::parse, WriteVariable::parse (lines 343-348, 373-378)
IsReadVariable(call) ==
    call.name = ReadVariableName /\ Member(call.arguments, "name") # {}

IsWriteVariable(call) ==
    /\ call.name = WriteVariableName
    /\ Member(call.arguments, "name") # {}
    /\ Member(call.arguments, "value") # {}

ArgOf(call, key) == CHOOSE v \in Member(call.arguments, key) : TRUE

\* read_variable (lines 165-180)
read_variable(call, store) ==
    LET name == ArgOf(call, "name")
    IN  IF name \in VarKeys /\ store[name].set
        THEN Success(ToolResultFrom(call), JsonQuote(store[name].val))
        ELSE Failure(ToolResultFrom(call), <<"Variable ", name, " not found">>)

\* write_variable (lines 154-163)
write_variable_store(call, store) ==
    [store EXCEPT ![ArgOf(call, "name")] = [set |-> TRUE, val |-> <<ArgOf(call, "value")>>]]

write_variable_result(call) ==
    Success(ToolResultFrom(call),
            <<"Variable ", ArgOf(call, "name"), " set to ", ArgOf(call, "value")>>)

\* ------------------------------------------------------------------------
\* orch.rs: init_agent, execute_transform, execute_tool
\* ------------------------------------------------------------------------

MaxTurns == 3
MaxDepth == 3

\* The variables execute is called with.
ExecInput == { <<"task", <<"t">>>> }

CallRead == ToolCallFull(ReadVariableName, "c1", { <<"name", "k">> })
CallWrite == ToolCallFull(WriteVariableName, "c1", { <<"name", "out">>, <<"value", "v">> })
CallB(id) == ToolCallFull("B", id, { <<"topic", "x">> })
CallA == ToolCallFull("A", "c1", { <<"topic", "x">> })
CallFs(id) == ToolCallFull("fs_read", id, { <<"path", "p">> })
CallNope(id) == ToolCallFull("nope", id, {})

\* The completion streams the provider answers a request with. The stream
\* of the single error item also stands for a failed chat call.
OrchStreams ==
    { <<Message(<<"hi">>, <<>>)>>,
      <<Message(<<>>, <<CallRead>>)>>,
      <<Message(<<>>, <<CallWrite>>)>>,
      <<Message(<<"hi">>, <<CallB("c1")>>)>>,
      <<Message(<<>>, <<CallA>>)>>,
      <<Message(<<>>, <<CallFs("c1")>>)>>,
      <<Message(<<>>, <<CallFs("c1")>>), Message(<<>>, <<CallNope("c2")>>)>>,
      <<Message(<<"hi">>, <<CallB("c1")>>), Message(<<>>, <<CallFs("c2")>>)>>,
      <<Message(<<>>, <<ToolCallPart("fs_read", "c1", <<"{">>)>>),
        Message(<<>>, <<ToolCallPart("", NoId, <<"path", ":", "p", "}">>)>>)>>,
      <<Message(<<"hi">>, <<CallFs("c1")>>), StreamError>>,
      <<StreamError>> }

\* send_message (lines 53-64): with a sender attached the item goes on the
\* channel. send and send_error (lines 66-72) wrap it; nothing calls them.
send_message(ch, agent, message) ==
    IF sender THEN Append(ch, [agent |-> agent, message |-> message]) ELSE ch

send(ch, agent, response) == send_message(ch, agent, [ok |-> TRUE, item |-> response])

send_error(ch, agent, error) == send_message(ch, agent, [ok |-> FALSE, item |-> error])

Top == stack[Len(stack)]
SetTop(fr) == [stack EXCEPT ![Len(stack)] = fr]
Push(fr) == Append(stack, fr)

\* The start of init_agent (lines 268-285): the context is built afresh for
\* an ephemeral agent and loaded from the state (or built on a miss) for
\* the others; then the user message is added.
NewFrame(agent, input) ==
    LET base == IF workflow[agent].ephemeral \/ ~state[agent].present
                THEN init_agent_context(agent, input)
                ELSE state[agent].ctx
    IN  [agent |-> agent,
         input |-> input,
         context |-> add_message(base, ContentMessage("User", RenderUser(agent, input), <<>>)),
         pc |-> "transform",
         tIdx |-> 1,
         content |-> <<>>,
         calls |-> <<>>,
         cIdx |-> 1,
         results |-> <<>>,
         seen |-> writes[agent]]

\* The call init_agent(agent, input) (lines 268-285): get_agent fails for
\* an id the workflow has no agent of; the state is read under its lock.
CallInitAgent(agent, input) ==
    IF find_agent(agent)
    THEN /\ Len(stack) < MaxDepth
         /\ workflow[agent].ephemeral \/ "state" \notin held
         /\ stack' = Push(NewFrame(agent, input))
         /\ status' = status
    ELSE /\ stack' = <<>>
         /\ status' = "ErrAgentUndefined"

Transforms(fr) == workflow[fr.agent].transforms

InitialState == [a \in Agents |-> [present |-> FALSE, ctx |-> EmptyContext]]

OrchInit ==
    /\ workflow \in Workflows
    /\ state = InitialState
    /\ variables = [k \in VarKeys |-> Unset]
    /\ stack = <<>>
    /\ status = "idle"
    /\ turns = 0
    /\ lastSvc = NoSvc
    /\ sender = TRUE
    /\ channel = <<>>
    /\ writes = [a \in Agents |-> 0]
    /\ held = {}

\* execute (lines 322-325)
Execute ==
    /\ status = "idle"
    /\ stack' = <<NewFrame(HeadAgent, ExecInput)>>
    /\ status' = "running"
    /\ UNCHANGED <<workflow, state, variables, turns, lastSvc>>
    /\ UNCHANGED <<editVars, collectVars, ctxVars, cmdVars, chatVars, thinkVars>>
    /\ UNCHANGED <<sender, channel, writes, held>>

Running == status = "running" /\ stack # <<>>

InTransform == Running /\ Top.pc = "transform" /\ Top.tIdx <= Len(Transforms(Top))

\* execute_transform has run every transform (line 265).
TransformsDone ==
    /\ Running
    /\ Top.pc = "transform"
    /\ Top.tIdx > Len(Transforms(Top))
    /\ stack' = SetTop([Top EXCEPT !.pc = "chat"])
    /\ UNCHANGED <<workflow, state, variables, status, turns, lastSvc>>
    /\ UNCHANGED <<editVars, collectVars, ctxVars, cmdVars, chatVars, thinkVars>>
    /\ UNCHANGED <<sender, channel, writes, held>>

\* Transform::Tap (lines 255-261): the sub-agent is started on the text of
\* the context.
TransformTap ==
    /\ InTransform
    /\ Transforms(Top)[Top.tIdx].kind = "Tap"
    /\ LET t == Transforms(Top)[Top.tIdx]
       IN  CallInitAgent(t.agent_id, { <<t.input, to_text(Top.context)>> })
    /\ UNCHANGED <<workflow, state, variables, turns, lastSvc>>
    /\ UNCHANGED <<editVars, collectVars, ctxVars, cmdVars, chatVars, thinkVars>>
    /\ UNCHANGED <<sender, channel, writes, held>>

\* The guards alive when a transform calls init_agent: none, the lock of
\* the variables is taken after the sub-agent has returned.
GuardTakenFirst(t) == { "variables" }
GuardBeforeAgent(t) == {}

LastIsAnything(ctx) == ctx.messages # <<>>
LastIsUser(ctx) ==
    ctx.messages # <<>> /\ ctx.messages[Len(ctx.messages)].role = "User"

\* Transform::User (lines 234-254): with a User message last the sub-agent
\* is started on its content; otherwise the transform does nothing.
TransformUser ==
    /\ InTransform
    /\ Transforms(Top)[Top.tIdx].kind = "User"
    /\ LET t == Transforms(Top)[Top.tIdx]
           ctx == Top.context
       IN  IF LastIsUser(ctx)
           THEN CallInitAgent(t.agent_id,
                              { <<t.input, ctx.messages[Len(ctx.messages)].content>> })
           ELSE /\ stack' = SetTop([Top EXCEPT !.tIdx = @ + 1])
                /\ status' = status
    /\ UNCHANGED <<workflow, state, variables, turns, lastSvc>>
    /\ UNCHANGED <<editVars, collectVars, ctxVars, cmdVars, chatVars, thinkVars>>
    /\ held' = held \cup GuardBeforeAgent(Transforms(Top)[Top.tIdx])
    /\ UNCHANGED <<sender, channel, writes>>

\* Summarize: the tokens of a context are counted in messages; while there
\* are more than the limit, the window is every message after a leading
\* System message, and the summary replaces it as one Assistant message.
TokenCount(ctx) == Len(ctx.messages)

SummaryWindow(ctx, limit) ==
    [present |-> TokenCount(ctx) > limit,
     first |-> IF LeadingSystem(ctx) THEN 2 ELSE 1,
     last |-> Len(ctx.messages)]

WindowText(ctx, w) ==
    to_text([ctx EXCEPT !.messages = SubSeq(ctx.messages, w.first, w.last)])

SetSummary(ctx, w, text) ==
    [ctx EXCEPT !.messages = SubSeq(ctx.messages, 1, w.first - 1)
                             \o <<ContentMessage("Assistant", text, <<>>)>>
                             \o SubSeq(ctx.messages, w.last + 1, Len(ctx.messages))]

\* Transform::Assistant (lines 212-233): while the summariser has a window
\* the sub-agent is started on its text.
TransformAssistant ==
    /\ InTransform
    /\ Transforms(Top)[Top.tIdx].kind = "Assistant"
    /\ LET t == Transforms(Top)[Top.tIdx]
           w == SummaryWindow(Top.context, t.token_limit)
       IN  IF w.present
           THEN CallInitAgent(t.agent_id, { <<t.input, WindowText(Top.context, w)>> })
           ELSE /\ stack' = SetTop([Top EXCEPT !.tIdx = @ + 1])
                /\ status' = status
    /\ UNCHANGED <<workflow, state, variables, turns, lastSvc>>
    /\ UNCHANGED <<editVars, collectVars, ctxVars, cmdVars, chatVars, thinkVars>>
    /\ held' = held \cup GuardBeforeAgent(Transforms(Top)[Top.tIdx])
    /\ UNCHANGED <<sender, channel, writes>>

\* The provider answers and collect_messages succeeds (lines 290-297).
ChatCompletes ==
    /\ Running
    /\ Top.pc = "chat"
    /\ turns < MaxTurns
    /\ \E response \in OrchStreams :
         LET r == collect_messages(response)
         IN  /\ r.ok
             /\ stack' = SetTop([Top EXCEPT !.pc = "tools", !.content = r.content,
                                            !.calls = r.tool_calls, !.cIdx = 1,
                                            !.results = <<>>])
    /\ turns' = turns + 1
    /\ UNCHANGED <<workflow, state, variables, status, lastSvc>>
    /\ UNCHANGED <<editVars, collectVars, ctxVars, cmdVars, chatVars, thinkVars>>
    /\ UNCHANGED <<sender, channel, writes, held>>

\* The chat call fails or an item of the stream is an error: the error is
\* returned through every enclosing init_agent (the ? of lines 293, 295,
\* 196, 223, 244, 260, 288 and 300).
ProviderFailsSavingContext ==
    /\ Running
    /\ Top.pc = "chat"
    /\ turns < MaxTurns
    /\ \E response \in OrchStreams :
         LET r == collect_messages(response)
         IN  /\ ~r.ok
             /\ state' = [state EXCEPT ![Top.agent] = [present |-> TRUE, ctx |-> Top.context]]
    /\ stack' = <<>>
    /\ status' = "ErrProvider"
    /\ turns' = turns + 1
    /\ UNCHANGED <<workflow, variables, lastSvc>>
    /\ UNCHANGED <<editVars, collectVars, ctxVars, cmdVars, chatVars, thinkVars>>
    /\ UNCHANGED <<sender, channel, writes, held>>

ProviderFails ==
    /\ Running
    /\ Top.pc = "chat"
    /\ turns < MaxTurns
    /\ \E response \in OrchStreams : ~collect_messages(response).ok
    /\ stack' = <<>>
    /\ status' = "ErrProvider"
    /\ turns' = turns + 1
    /\ UNCHANGED <<workflow, state, variables, lastSvc>>
    /\ UNCHANGED <<editVars, collectVars, ctxVars, cmdVars, chatVars, thinkVars>>
    /\ UNCHANGED <<sender, channel, writes, held>>

InTools == Running /\ Top.pc = "tools" /\ Top.cIdx <= Len(Top.calls)

\* for tool_call in tool_calls.iter() (line 299)
CurrentCallReversed(fr) == fr.calls[Len(fr.calls) + 1 - fr.cIdx]
CurrentCall(fr) == fr.calls[fr.cIdx]

PushResultFirst(fr, r) == [fr EXCEPT !.results = <<r>> \o @, !.cIdx = @ + 1]
PushResult(fr, r) == [fr EXCEPT !.results = Append(@, r), !.cIdx = @ + 1]

\* self.variables.lock().await (lines 159 and 170): read_variable and
\* write_variable start by taking the lock of the variables, which is not
\* reentrant.
LockVariables ==
    /\ InTools
    /\ IsReadVariable(CurrentCall(Top)) \/ IsWriteVariable(CurrentCall(Top))
    /\ "variables" \notin held
    /\ held' = held \cup { "variables" }
    /\ stack' = SetTop([Top EXCEPT !.pc = "locked"])
    /\ UNCHANGED <<workflow, state, variables, status, turns, lastSvc>>
    /\ UNCHANGED <<editVars, collectVars, ctxVars, cmdVars, chatVars, thinkVars>>
    /\ UNCHANGED <<sender, channel, writes>>

Locked == Running /\ Top.pc = "locked"

\* execute_tool, the read-variable arm (lines 186-187); the guard is
\* dropped when read_variable returns.
ToolReadVariable ==
    /\ Locked
    /\ IsReadVariable(CurrentCall(Top))
    /\ stack' = SetTop([PushResult(Top, read_variable(CurrentCall(Top), variables))
                          EXCEPT !.pc = "tools"])
    /\ held' = held \ { "variables" }
    /\ UNCHANGED <<workflow, state, variables, status, turns, lastSvc>>
    /\ UNCHANGED <<editVars, collectVars, ctxVars, cmdVars, chatVars, thinkVars>>
    /\ UNCHANGED <<sender, channel, writes>>

\* execute_tool, the write-variable arm (lines 188-189)
ToolWriteVariable ==
    /\ Locked
    /\ ~IsReadVariable(CurrentCall(Top))
    /\ IsWriteVariable(CurrentCall(Top))
    /\ variables' = write_variable_store(CurrentCall(Top), variables)
    /\ stack' = SetTop([PushResult(Top, write_variable_result(CurrentCall(Top)))
                          EXCEPT !.pc = "tools"])
    /\ held' = held \ { "variables" }
    /\ UNCHANGED <<workflow, state, status, turns, lastSvc>>
    /\ UNCHANGED <<editVars, collectVars, ctxVars, cmdVars, chatVars, thinkVars>>
    /\ UNCHANGED <<sender, channel, writes>>

IsAgentCall(call) ==
    ~IsReadVariable(call) /\ ~IsWriteVariable(call) /\ find_agent(call.name)

IsServiceCall(call) ==
    ~IsReadVariable(call) /\ ~IsWriteVariable(call) /\ ~find_agent(call.name)

\* execute_tool, the agent arm (lines 192-197): the agent is run on the
\* call's arguments.
AgentInput(call) == VariablesFrom(call.arguments)

ToolAgent ==
    /\ InTools
    /\ IsAgentCall(CurrentCall(Top))
    /\ CallInitAgent(CurrentCall(Top).name, AgentInput(CurrentCall(Top)))
    /\ UNCHANGED <<workflow, state, variables, turns, lastSvc>>
    /\ UNCHANGED <<editVars, collectVars, ctxVars, cmdVars, chatVars, thinkVars>>
    /\ UNCHANGED <<sender, channel, writes, held>>

\* execute_tool, the last arm (lines 198-201): the tool service is called.
ToolService ==
    /\ InTools
    /\ IsServiceCall(CurrentCall(Top))
    /\ \E outcome \in ExecOutcomes :
         LET call == CurrentCall(Top)
             r == ToolServiceCall(call, outcome)
         IN  /\ stack' = SetTop(PushResult(Top, r))
             /\ lastSvc' = [called |-> TRUE, call |-> call,
                            ok |-> ToolOutput(call, outcome).ok,
                            payload |-> ToolOutput(call, outcome).payload,
                            result |-> r]
    /\ UNCHANGED <<workflow, state, variables, status, turns>>
    /\ UNCHANGED <<editVars, collectVars, ctxVars, cmdVars, chatVars, thinkVars>>
    /\ UNCHANGED <<sender, channel, writes, held>>

\* tool_results.is_empty() (line 316) decides whether the loop goes on.
LoopsOnCalls(fr) == fr.calls # <<>>
LoopsAgain(fr) == fr.results # <<>>

\* The end of a turn (lines 305-318): the Assistant message and the tool
\* results are added, the context is stored for a non-ephemeral agent, and
\* init_agent returns or loops.
TurnContext(fr) ==
    add_tool_results(
        add_message(fr.context, ContentMessage("Assistant", fr.content, fr.calls)),
        fr.results)

\* if !agent.ephemeral (line 309)
StoresContextAlways(agent) == TRUE
StoresContext(agent) == ~workflow[agent].ephemeral

\* The entry of the state is written under the lock of the state; writes
\* counts the writes of each entry and the frame notes the last it knows.
EndTurn ==
    /\ Running
    /\ Top.pc = "tools"
    /\ Top.cIdx > Len(Top.calls)
    /\ IF StoresContext(Top.agent)
       THEN /\ "state" \notin held
            /\ state' = [state EXCEPT ![Top.agent] =
                            [present |-> TRUE, ctx |-> TurnContext(Top)]]
            /\ writes' = [writes EXCEPT ![Top.agent] = @ + 1]
       ELSE UNCHANGED <<state, writes>>
    /\ stack' = SetTop([Top EXCEPT !.context = TurnContext(Top),
                                   !.pc = IF LoopsAgain(Top) THEN "transform" ELSE "return",
                                   !.tIdx = 1,
                                   !.seen = writes'[Top.agent]])
    /\ UNCHANGED <<workflow, variables, status, turns, lastSvc>>
    /\ UNCHANGED <<editVars, collectVars, ctxVars, cmdVars, chatVars, thinkVars>>
    /\ UNCHANGED <<sender, channel, held>>

\* After an agent run as a tool has returned: Ok(None), no result.
ResumeToolWithResult(fr) == PushResult(fr, Success(ToolResultFrom(CurrentCall(fr)), <<"done">>))
ResumeTool(fr) == [fr EXCEPT !.cIdx = @ + 1]

\* "\n<output_key>\n{message}\n</output_key>" (line 252)
OutputBlock(key, value) ==
    <<"LF", "<", key, ">", "LF">> \o JsonQuote(value) \o <<"LF", "</", key, ">">>

AppendToLast(ctx, text) ==
    [ctx EXCEPT !.messages[Len(ctx.messages)].content = @ \o text]

\* After the sub-agent of a transform has returned: Tap goes on to the next
\* transform; User appends the output variable to the message and goes on;
\* Assistant sets the summary and asks the summariser again.
ResumeTransformAppending(fr, store) ==
    [[fr EXCEPT !.context = AppendToLast(fr.context, <<"tapped">>)] EXCEPT !.tIdx = @ + 1]
ResumeTransform(fr, store) ==
    LET t == Transforms(fr)[fr.tIdx]
    IN  IF t.kind = "Tap" THEN [fr EXCEPT !.tIdx = @ + 1]
        ELSE IF t.kind = "User"
        THEN [fr EXCEPT !.context = AppendToLast(fr.context,
                                       OutputBlock(t.output, store[t.output].val)),
                        !.tIdx = @ + 1,
                        !.pc = "transform"]
        ELSE [fr EXCEPT !.context = SetSummary(fr.context,
                                       SummaryWindow(fr.context, t.token_limit),
                                       JsonQuote(store[t.output].val)),
                        !.pc = "transform"]

\* guard.get(output_key).ok_or(Error::UndefinedVariable(..)) (lines 227-229
\* and 246-248)
OutputNeverMissing(fr, store) == FALSE
OutputMissing(fr, store) ==
    /\ Transforms(fr)[fr.tIdx].kind \in { "User", "Assistant" }
    /\ ~store[Transforms(fr)[fr.tIdx].output].set

\* init_agent returns Ok(()) (line 317) and its caller goes on: execute
\* ends, execute_tool returns Ok(None), a Tap is over, and the User and
\* Assistant transforms take the lock of the variables (lines 225, 245).
Return ==
    /\ Running
    /\ Top.pc = "return"
    /\ IF Len(stack) = 1
       THEN /\ stack' = <<>>
            /\ status' = "Ok"
            /\ held' = held
       ELSE LET parent == stack[Len(stack) - 1]
                rest == SubSeq(stack, 1, Len(stack) - 2)
            IN  IF parent.pc = "tools"
                THEN /\ stack' = Append(rest, ResumeTool(parent))
                     /\ status' = status
                     /\ held' = held
                ELSE IF Transforms(parent)[parent.tIdx].kind = "Tap"
                THEN /\ stack' = Append(rest, ResumeTransform(parent, variables))
                     /\ status' = status
                     /\ held' = held
                ELSE /\ "variables" \notin held
                     /\ held' = held \cup { "variables" }
                     /\ stack' = Append(rest, [parent EXCEPT !.pc = "output"])
                     /\ status' = status
    /\ UNCHANGED <<workflow, state, variables, turns, lastSvc>>
    /\ UNCHANGED <<editVars, collectVars, ctxVars, cmdVars, chatVars, thinkVars>>
    /\ UNCHANGED <<sender, channel, writes>>

\* With the lock held the output variable is read: a missing one is the
\* error UndefinedVariable, which every caller passes on; the guard is
\* dropped at the end of the block.
ReadOutput ==
    /\ Running
    /\ Top.pc = "output"
    /\ IF OutputMissing(Top, variables)
       THEN /\ stack' = <<>>
            /\ status' = "ErrUndefinedVariable"
       ELSE /\ stack' = SetTop(ResumeTransform(Top, variables))
            /\ status' = status
    /\ held' = held \ { "variables" }
    /\ UNCHANGED <<workflow, state, variables, turns, lastSvc>>
    /\ UNCHANGED <<editVars, collectVars, ctxVars, cmdVars, chatVars, thinkVars>>
    /\ UNCHANGED <<sender, channel, writes>>

OrchNext ==
    \/ Execute
    \/ TransformsDone
    \/ TransformTap
    \/ TransformUser
    \/ TransformAssistant
    \/ ChatCompletes
    \/ ProviderFails
    \/ LockVariables
    \/ ToolReadVariable
    \/ ToolWriteVariable
    \/ ToolAgent
    \/ ToolService
    \/ EndTurn
    \/ Return
    \/ ReadOutput

\* Runs in which the provider answers every request with a finite completion
\* that has no tool call: workflows whose transforms name the agent itself
\* or each other are among them.
QuietStreams == { r \in OrchStreams : collect_messages(r).ok /\ collect_messages(r).tool_calls = <<>> }

QuietTransformChoices ==
    { t \in TransformChoices : \A a \in Agents : \A i \in 1..Len(t[a]) : find_agent(t[a][i].agent_id) }
    \cup { [A |-> <<Tap("B", "in")>>, B |-> <<Tap("A", "in")>>],
           [A |-> <<UserT("A", "in", "out")>>, B |-> <<>>],
           [A |-> <<AssistantT("B", TokenLimit - 1, "in", "out")>>, B |-> <<>>] }

QuietWorkflows ==
    { [a \in Agents |->
         [ephemeral |-> IF a = "A" THEN eA ELSE eB,
          transforms |-> t[a],
          tools |-> IF a = "A" THEN { "fs_read", "B", WriteVariableName }
                    ELSE { ReadVariableName, WriteVariableName }]] :
      eA \in BOOLEAN, eB \in BOOLEAN, t \in QuietTransformChoices }

QuietInit ==
    /\ workflow \in QuietWorkflows
    /\ state = InitialState
    /\ variables = [k \in VarKeys |-> Unset]
    /\ stack = <<>>
    /\ status = "idle"
    /\ turns = 0
    /\ lastSvc = NoSvc
    /\ sender = TRUE
    /\ channel = <<>>
    /\ writes = [a \in Agents |-> 0]
    /\ held = {}

\* The provider answers without a tool call (lines 290-297).
ChatCompletesQuiet ==
    /\ Running
    /\ Top.pc = "chat"
    /\ turns < MaxTurns
    /\ \E response \in QuietStreams :
         LET r == collect_messages(response)
         IN  stack' = SetTop([Top EXCEPT !.pc = "tools", !.content = r.content,
                                         !.calls = r.tool_calls, !.cIdx = 1,
                                         !.results = <<>>])
    /\ turns' = turns + 1
    /\ UNCHANGED <<workflow, state, variables, status, lastSvc>>
    /\ UNCHANGED <<editVars, collectVars, ctxVars, cmdVars, chatVars, thinkVars>>
    /\ UNCHANGED <<sender, channel, writes, held>>

QuietNext ==
    \/ Execute
    \/ TransformsDone
    \/ TransformTap
    \/ TransformUser
    \/ TransformAssistant
    \/ ChatCompletesQuiet
    \/ EndTurn
    \/ Return
    \/ ReadOutput

\* ------------------------------------------------------------------------
\* orch.rs: one completion stream that carries one tool call in fragments
\* ------------------------------------------------------------------------

MaxFrags == 3

CollectIdle ==
    /\ stream = <<>>
    /\ received = <<>>
    /\ collected = [done |-> FALSE, ok |-> FALSE, content |-> <<>>, tool_calls |-> <<>>]
    /\ origCall = [name |-> "", call_id |-> NoId, text |-> <<>>]
    /\ emitted = <<>>

\* The complete calls the provider splits: name, call id, arguments text.
SplitCalls ==
    { [name |-> "fs_read", call_id |-> "id1", text |-> <<"{", "path", ":", "p", "}">>],
      [name |-> "B", call_id |-> "id1", text |-> <<"{", " ", "}">>] }

NameFrags == { "", "fs_", "read", "fs_read", "B" }

RECURSIVE ConcatStrings(_)
ConcatStrings(ns) == IF ns = <<>> THEN "" ELSE Head(ns) \o ConcatStrings(Tail(ns))

\* Every way of cutting text into n consecutive pieces (empty ones too).
Cuts(text, n) ==
    { c \in [0..n -> 0..Len(text)] :
        /\ c[0] = 0
        /\ c[n] = Len(text)
        /\ \A i \in 1..n : c[i - 1] <= c[i] }

\* The streams that deliver call c in n Partial fragments, one per message:
\* the name and the arguments text are cut in any way, the call id is on
\* any of the fragments, and the messages carry a text delta or none.
Splittings(c, n) ==
    { [i \in 1..n |->
        Message(txt, <<ToolCallPart(ns[i], ids[i],
                                    SubSeq(c.text, cut[i - 1] + 1, cut[i]))>>)] :
        ns \in { x \in [1..n -> NameFrags] : ConcatStrings(x) = c.name },
        ids \in [1..n -> {NoId, c.call_id}],
        cut \in Cuts(c.text, n),
        txt \in { <<>>, <<"hi">> } }

CollectInit ==
    /\ origCall \in SplitCalls
    /\ \E n \in 1..MaxFrags : stream \in Splittings(origCall, n)
    /\ emitted = <<[call |-> ToolCallFull(origCall.name, origCall.call_id,
                                          ParseJson(origCall.text).value),
                    via |-> "Partial"]>>
    /\ received = <<>>
    /\ collected = [done |-> FALSE, ok |-> FALSE, content |-> <<>>, tool_calls |-> <<>>]

\* response.collect(): the next item of the stream arrives.
Receive ==
    /\ stream # <<>>
    /\ ~collected.done
    /\ received' = Append(received, Head(stream))
    /\ stream' = Tail(stream)
    /\ UNCHANGED <<collected, origCall, emitted>>
    /\ UNCHANGED <<editVars, orchVars, ctxVars, cmdVars, chatVars, thinkVars>>

\* The stream has ended: collect_messages computes its result.
Collect ==
    /\ stream = <<>>
    /\ ~collected.done
    /\ LET r == collect_messages(received)
       IN  collected' = [done |-> TRUE, ok |-> r.ok, content |-> r.content,
                         tool_calls |-> r.tool_calls]
    /\ UNCHANGED <<stream, received, origCall, emitted>>
    /\ UNCHANGED <<editVars, orchVars, ctxVars, cmdVars, chatVars, thinkVars>>

CollectNext == Receive \/ Collect

\* ------------------------------------------------------------------------
\* orch.rs: one completion stream that carries several tool calls, each
\* through one of the sources collect_messages reads
\* ------------------------------------------------------------------------

MaxCalls == 2

\* The k-th call the provider completes.
SlotNames == <<"fs_read", "shell", "B", "A">>
SlotIds == <<"c1", "c2", "c3", "c4">>
SlotText == <<"{", "path", ":", "p", "}">>
SlotCall(k) == ToolCallFull(SlotNames[k], SlotIds[k], ParseJson(SlotText).value)

\* How a call travels: complete in one message, in two Partial fragments,
\* as a <tool_call> block of the text, or in fragments followed by the
\* complete call under the same call id.
Sources == { "Full", "Partial", "Xml", "PartialThenFull" }

FullItems(c) == << Message(<<>>, <<c>>) >>

PartialItems(c) ==
    << Message(<<>>, <<ToolCallPart(c.name, c.call_id, SubSeq(SlotText, 1, 1))>>),
       Message(<<>>, <<ToolCallPart("", NoId, SubSeq(SlotText, 2, Len(SlotText)))>>) >>

XmlItems(c) ==
    << Message(<<"<tool_call>", c.name>> \o SlotText \o <<"</tool_call>">>, <<>>) >>

Items(c, via) ==
    IF via = "Full" THEN FullItems(c)
    ELSE IF via = "Partial" THEN PartialItems(c)
    ELSE IF via = "Xml" THEN XmlItems(c)
    ELSE PartialItems(c) \o FullItems(c)

Deliveries ==
    UNION { { [k \in 1..n |-> [call |-> SlotCall(k), via |-> v[k]]] :
              v \in [1..n -> Sources] } : n \in 1..MaxCalls }

StreamOf(es) == Flatten([k \in 1..Len(es) |-> Items(es[k].call, es[k].via)])

AggregateInit ==
    /\ emitted \in Deliveries
    /\ stream = StreamOf(emitted)
    /\ origCall = [name |-> "", call_id |-> NoId, text |-> <<>>]
    /\ received = <<>>
    /\ collected = [done |-> FALSE, ok |-> FALSE, content |-> <<>>, tool_calls |-> <<>>]

\* ------------------------------------------------------------------------
\* context.rs: one call of set_first_system_message
\* ------------------------------------------------------------------------

MaxCtxLen == 3

\* The messages of the contexts the call is made on.
CtxMessages ==
    { ContentMessage("System", <<"old">>, <<>>),
      ContentMessage("User", <<"u">>, <<>>),
      ContentMessage("Assistant", <<"a">>, <<CallFs("c1")>>),
      ToolMessage(Success(ToolResultFrom(CallFs("c1")), <<"data">>)),
      AttachmentsMessage }

CtxContexts ==
    UNION { { [EmptyContext EXCEPT !.messages = m] : m \in [1..n -> CtxMessages] } :
            n \in 0..MaxCtxLen }

CtxIdle ==
    /\ ctxIn = EmptyContext
    /\ ctxText = <<>>
    /\ ctxOut = EmptyContext
    /\ ctxPc = "idle"

CtxInit ==
    /\ ctxIn \in CtxContexts
    /\ ctxText \in { <<"new">>, <<"old">> }
    /\ ctxOut = EmptyContext
    /\ ctxPc = "call"

SetFirstSystemMessage ==
    /\ ctxPc = "call"
    /\ ctxOut' = set_first_system_message(ctxIn, ctxText)
    /\ ctxPc' = "done"
    /\ UNCHANGED <<ctxIn, ctxText>>
    /\ UNCHANGED <<editVars, collectVars, orchVars, cmdVars, chatVars, thinkVars>>

CtxNext == SetFirstSystemMessage

\* ------------------------------------------------------------------------
\* command.rs: one call of Command::parse. An input string is a sequence of
\* pieces, cut where the parser looks: the directives, the words of the
\* config command, other text, and " " for a white space character.
\* ------------------------------------------------------------------------

MaxInputLen == 4

Pieces == { "/end", "/new", "/reload", "/info", "/exit", "/config", "/models",
            " ", "get", "set", "k", "x" }

CmdInputs == UNION { [1..n -> Pieces] : n \in 0..MaxInputLen }

\* str::trim
RECURSIVE TrimStart(_)
TrimStart(t) == IF t # <<>> /\ Head(t) = " " THEN TrimStart(Tail(t)) ELSE t

RECURSIVE TrimEnd(_)
TrimEnd(t) ==
    IF t # <<>> /\ t[Len(t)] = " " THEN TrimEnd(SubSeq(t, 1, Len(t) - 1)) ELSE t

Trim(t) == TrimEnd(TrimStart(t))

\* str::split_whitespace: the words between the runs of white space.
RECURSIVE SplitWhitespace(_, _, _)
SplitWhitespace(t, word, done) ==
    IF t = <<>> THEN IF word = <<>> THEN done ELSE Append(done, word)
    ELSE IF Head(t) = " "
         THEN SplitWhitespace(Tail(t), <<>>, IF word = <<>> THEN done ELSE Append(done, word))
         ELSE SplitWhitespace(Tail(t), Append(word, Head(t)), done)

\* [&str]::join(" ")
RECURSIVE JoinSpace(_)
JoinSpace(words) ==
    IF words = <<>> THEN <<>>
    ELSE IF Len(words) = 1 THEN words[1]
    ELSE words[1] \o <<" ">> \o JoinSpace(Tail(words))

Cmd(kind) == [kind |-> kind, sub |-> "", a |-> <<>>, b |-> <<>>]
CmdMessage(text) == [kind |-> "Message", sub |-> "", a |-> text, b |-> <<>>]
CmdConfig(sub, a, b) == [kind |-> "Config", sub |-> sub, a |-> a, b |-> b]

CmdOk(c) == [ok |-> TRUE, cmd |-> c]
CmdErr == [ok |-> FALSE, cmd |-> Cmd("CommandParse")]

\* ConfigCommand::parse (lines 52-79)
ConfigCommandParse(args) ==
    IF args = <<>> THEN CmdOk(CmdConfig("List", <<>>, <<>>))
    ELSE IF args[1] = <<"set">>
         THEN IF Len(args) < 3 THEN CmdErr
              ELSE CmdOk(CmdConfig("Set", args[2], JoinSpace(SubSeq(args, 3, Len(args)))))
    ELSE IF args[1] = <<"get">>
         THEN IF Len(args) # 2 THEN CmdErr
              ELSE CmdOk(CmdConfig("Get", args[2], <<>>))
    ELSE CmdErr

\* trimmed.starts_with("/config") (line 117)
StartsWithConfig(t) == t # <<>> /\ Head(t) = "/config"

\* Command::parse (lines 113-130)
CommandParse(input) ==
    LET trimmed == Trim(input)
    IN  IF StartsWithConfig(trimmed)
        THEN ConfigCommandParse(Tail(SplitWhitespace(trimmed, <<>>, <<>>)))
        ELSE IF trimmed = <<"/end">> THEN CmdOk(Cmd("End"))
        ELSE IF trimmed = <<"/new">> THEN CmdOk(Cmd("New"))
        ELSE IF trimmed = <<"/reload">> THEN CmdOk(Cmd("Reload"))
        ELSE IF trimmed = <<"/info">> THEN CmdOk(Cmd("Info"))
        ELSE IF trimmed = <<"/exit">> THEN CmdOk(Cmd("Exit"))
        ELSE CmdOk(CmdMessage(trimmed))

CmdIdle ==
    /\ cmdIn = <<>>
    /\ cmdOut = CmdErr
    /\ cmdPc = "idle"

CmdInit ==
    /\ cmdIn \in CmdInputs
    /\ cmdOut = CmdErr
    /\ cmdPc = "call"

ParseCommand ==
    /\ cmdPc = "call"
    /\ cmdOut' = CommandParse(cmdIn)
    /\ cmdPc' = "done"
    /\ UNCHANGED cmdIn
    /\ UNCHANGED <<editVars, collectVars, orchVars, ctxVars, chatVars, thinkVars>>

CmdNext == ParseCommand

\* ------------------------------------------------------------------------
\* open_router.rs: OpenRouter::chat
\* ------------------------------------------------------------------------

\* tokio::sync::mpsc::channel(100)
ChannelCapacity == 100

MaxEvents == 101

ChatEnds == { "DONE", "Upstream", "Transport" }

\* crate::Response::try_from(response) of the k-th completion event, and the
\* error an unreadable event or a failed connection is turned into.
ResponseItem(k) == [ok |-> TRUE, n |-> k]
ErrorItem == [ok |-> FALSE, n |-> 0]
NoItem == [ok |-> FALSE, n |-> -1]

\* The events the event source yields: Open, the completion events, and
\* the end.
EventAt(p) ==
    IF p = 1 THEN "Open"
    ELSE IF p <= chatN + 1 THEN "Message"
    ELSE chatEnd

ChatIdle ==
    /\ chatN = 0
    /\ chatEnd = "DONE"
    /\ chatPos = 0
    /\ chatItem = NoItem
    /\ chatQueue = <<>>
    /\ chatOut = <<>>
    /\ chatPc = "idle"

\* chat has sent the request and made the channel (lines 434-451).
ChatInit ==
    /\ chatN \in 0..MaxEvents
    /\ chatEnd \in ChatEnds
    /\ chatPos = 0
    /\ chatItem = NoItem
    /\ chatQueue = <<>>
    /\ chatOut = <<>>
    /\ chatPc = "loop"

\* while let Some(event) = es.next().await (lines 452-486): Open is passed
\* over, a completion event is to be sent, [DONE] breaks, and an event that
\* is no completion or a failure of the source is to be sent as an error.
ChatPoll ==
    /\ chatPc = "loop"
    /\ LET e == EventAt(chatPos + 1)
       IN  /\ chatPos' = chatPos + 1
           /\ IF e = "Open" THEN UNCHANGED <<chatItem, chatPc>>
              ELSE IF e = "Message"
              THEN chatItem' = ResponseItem(chatPos) /\ chatPc' = "send"
              ELSE IF e = "DONE"
              THEN chatItem' = chatItem /\ chatPc' = "break"
              ELSE chatItem' = ErrorItem /\ chatPc' = "send"
    /\ UNCHANGED <<chatN, chatEnd, chatQueue, chatOut>>
    /\ UNCHANGED <<editVars, collectVars, orchVars, ctxVars, cmdVars, thinkVars>>

\* tx.send(item).await (lines 467, 472-478, 483): completes when the
\* channel has room; the loop goes on after a response and breaks after an
\* error.
ChatSend ==
    /\ chatPc = "send"
    /\ Len(chatQueue) < ChannelCapacity
    /\ chatQueue' = Append(chatQueue, chatItem)
    /\ chatPc' = IF chatItem.ok THEN "loop" ELSE "break"
    /\ UNCHANGED <<chatN, chatEnd, chatPos, chatItem, chatOut>>
    /\ UNCHANGED <<editVars, collectVars, orchVars, ctxVars, cmdVars, thinkVars>>

\* After the loop the receiver is wrapped and returned (lines 489-491); tx
\* is dropped with the end of chat.
ChatReturn ==
    /\ chatPc = "break"
    /\ chatPc' = "returned"
    /\ UNCHANGED <<chatN, chatEnd, chatPos, chatItem, chatQueue, chatOut>>
    /\ UNCHANGED <<editVars, collectVars, orchVars, ctxVars, cmdVars, thinkVars>>

\* The caller, who has the stream once chat has returned, takes an item.
StreamNext ==
    /\ chatPc = "returned"
    /\ chatQueue # <<>>
    /\ chatOut' = Append(chatOut, Head(chatQueue))
    /\ chatQueue' = Tail(chatQueue)
    /\ UNCHANGED <<chatN, chatEnd, chatPos, chatItem, chatPc>>
    /\ UNCHANGED <<editVars, collectVars, orchVars, ctxVars, cmdVars, thinkVars>>

\* The channel is empty and its sender dropped: the stream ends.
StreamEnd ==
    /\ chatPc = "returned"
    /\ chatQueue = <<>>
    /\ chatPc' = "ended"
    /\ UNCHANGED <<chatN, chatEnd, chatPos, chatItem, chatQueue, chatOut>>
    /\ UNCHANGED <<editVars, collectVars, orchVars, ctxVars, cmdVars, thinkVars>>

ChatNext ==
    \/ ChatPoll
    \/ ChatSend
    \/ ChatReturn
    \/ StreamNext
    \/ StreamEnd

\* ------------------------------------------------------------------------
\* seq-thinking/src/main.rs: the sequential-thinking server
\* ------------------------------------------------------------------------

MaxThoughts == 3

Some(x) == <<x>>
None == <<>>

BranchIds == { "b1", "b2" }

\* The arguments of a sequentialthinking call that deserialise to a
\* ThoughtData, and a call of a tool the server does not have.
ThoughtData(number, total, from, id) ==
    [name |-> "sequentialthinking", thought_number |-> number, total_thoughts |-> total,
     branch_from_thought |-> from, branch_id |-> id]

ThoughtInputs ==
    { ThoughtData(n, t, b[1], b[2]) :
        n \in { 0, 1, 3 }, t \in { 0, 2 },
        b \in { <<None, None>>, <<None, Some("b1")>>,
                <<Some(1), Some("b1")>>, <<Some(1), Some("b2")>> } }
    \cup { [ThoughtData(1, 2, None, None) EXCEPT !.name = "other"] }

\* SequentialThinkingServer::new (lines 34-39)
NewServer == [thought_history |-> <<>>, branches |-> [b \in BranchIds |-> <<>>]]

\* validate_thought_data (lines 41-52)
validate_thought_data(input) ==
    input.thought_number > 0 /\ input.total_thoughts > 0

\* process_thought (lines 92-122) on the server it is given: what the server
\* is afterwards and the result.
process_thought(server, input) ==
    LET td == [input EXCEPT !.total_thoughts =
                    IF input.thought_number > input.total_thoughts
                    THEN input.thought_number ELSE @]
        history == Append(server.thought_history, td)
        branches == IF td.branch_from_thought # None /\ td.branch_id # None
                    THEN [server.branches EXCEPT ![td.branch_id[1]] = Append(@, td)]
                    ELSE server.branches
    IN  IF ~validate_thought_data(input)
        THEN [server |-> server, ok |-> FALSE,
              result |-> [thoughtNumber |-> 0, totalThoughts |-> 0, branches |-> {},
                          thoughtHistoryLength |-> 0]]
        ELSE [server |-> [thought_history |-> history, branches |-> branches],
              ok |-> TRUE,
              result |-> [thoughtNumber |-> td.thought_number,
                          totalThoughts |-> td.total_thoughts,
                          branches |-> { b \in BranchIds : branches[b] # <<>> },
                          thoughtHistoryLength |-> Len(history)]]

\* call_tool (lines 125-145) on the server it is given.
call_tool(server, input) ==
    IF input.name = "sequentialthinking"
    THEN process_thought(server, input)
    ELSE [process_thought(server, input) EXCEPT !.server = server, !.ok = FALSE]

ThinkIdle ==
    /\ tServer = NewServer
    /\ thinkLog = <<>>

\* main (lines 212-215): the server is made and cloned for the handler.
ThinkInit ==
    /\ tServer = NewServer
    /\ thinkLog = <<>>

\* The tools/call handler (lines 221-223) with call_tools (240-245): the
\* call works on t_server.clone(), a server of its own, which is dropped
\* when the call returns.
CallTools ==
    /\ Len(thinkLog) < MaxThoughts
    /\ \E input \in ThoughtInputs :
         LET thinking_server == tServer
             r == call_tool(thinking_server, input)
         IN  thinkLog' = Append(thinkLog, [input |-> input, ok |-> r.ok, reply |-> r.result])
    /\ tServer' = tServer
    /\ UNCHANGED <<editVars, collectVars, orchVars, ctxVars, cmdVars, chatVars>>

ThinkNext == CallTools

\* ------------------------------------------------------------------------
\* Specifications
\* ------------------------------------------------------------------------

OrchFixed ==
    /\ workflow = [a \in Agents |-> [ephemeral |-> FALSE, transforms |-> <<>>, tools |-> {}]]
    /\ state = InitialState
    /\ variables = [k \in VarKeys |-> Unset]
    /\ stack = <<>>
    /\ status = "off"
    /\ turns = 0
    /\ lastSvc = NoSvc
    /\ sender = FALSE
    /\ channel = <<>>
    /\ writes = [a \in Agents |-> 0]
    /\ held = {}

\* One call of execute.
Init == EditIdle /\ CollectIdle /\ OrchInit /\ CtxIdle /\ CmdIdle /\ ChatIdle /\ ThinkIdle
Next == OrchNext
Spec == Init /\ [][Next]_vars

\* One call of the structured edit tool.
InitEdit == EditInit /\ CollectIdle /\ OrchFixed /\ CtxIdle /\ CmdIdle /\ ChatIdle /\ ThinkIdle
SpecEdit == InitEdit /\ [][EditNext]_vars

\* One completion stream through collect_messages.
InitCollect == EditIdle /\ CollectInit /\ OrchFixed /\ CtxIdle /\ CmdIdle /\ ChatIdle /\ ThinkIdle
SpecCollect == InitCollect /\ [][CollectNext]_vars

\* One completion stream of several calls through collect_messages.
InitAggregate == EditIdle /\ AggregateInit /\ OrchFixed /\ CtxIdle /\ CmdIdle /\ ChatIdle /\ ThinkIdle
SpecAggregate == InitAggregate /\ [][CollectNext]_vars

\* One call of set_first_system_message.
InitContext == EditIdle /\ CollectIdle /\ OrchFixed /\ CtxInit /\ CmdIdle /\ ChatIdle /\ ThinkIdle
SpecContext == InitContext /\ [][CtxNext]_vars

\* One call of Command::parse.
InitCommand == EditIdle /\ CollectIdle /\ OrchFixed /\ CtxIdle /\ CmdInit /\ ChatIdle /\ ThinkIdle
SpecCommand == InitCommand /\ [][CmdNext]_vars

\* execute on a provider that never asks for a tool. The orchestrator is one
\* asynchronous task of straight-line code between its awaits, and the
\* runtime polls it whenever it can go on: a step that is possible is taken.
InitQuiet == EditIdle /\ CollectIdle /\ QuietInit /\ CtxIdle /\ CmdIdle /\ ChatIdle /\ ThinkIdle
SpecQuiet == InitQuiet /\ [][QuietNext]_vars /\ WF_vars(QuietNext)

\* One call of OpenRouter::chat and the reading of its stream. The caller
\* reads the stream it was given to its end, and a send completes once the
\* channel has room: a step that is possible is taken.
InitChat == EditIdle /\ CollectIdle /\ OrchFixed /\ CtxIdle /\ CmdIdle /\ ChatInit /\ ThinkIdle
SpecChat == InitChat /\ [][ChatNext]_vars /\ WF_vars(ChatNext)

\* The tools/call requests of one run of the sequential-thinking server.
InitThink == EditIdle /\ CollectIdle /\ OrchFixed /\ CtxIdle /\ CmdIdle /\ ChatIdle /\ ThinkInit
SpecThink == InitThink /\ [][ThinkNext]_vars

\* C5. Partial tool-call assembly: however one complete tool call is split
\* into Partial fragments delivered in successive messages, collect_messages
\* returns exactly one Full call, with the call's name and the parsed
\* concatenation of the fragments as its arguments.
C5_PartialAssembly ==
    collected.done =>
        /\ collected.ok
        /\ Len(collected.tool_calls) = 1
        /\ collected.tool_calls[1].kind = "Full"
        /\ collected.tool_calls[1].name = origCall.name
        /\ collected.tool_calls[1].arguments = ParseJson(origCall.text).value
        /\ ParseJson(origCall.text).ok

\* A call cut into at least two fragments, the name cut too, was collected.
C5_Witness ==
    /\ collected.done
    /\ Len(received) >= 2
    /\ \E i \in 1..Len(received) :
         received[i].tool_call[1].name \notin {"", origCall.name}
    /\ \E i \in 2..Len(received) : received[i].tool_call[1].arguments_part # <<>>

\* ------------------------------------------------------------------------
\* Properties of the aggregator (under SpecAggregate)
\* ------------------------------------------------------------------------

\* The places of the returned list that hold the call of that name.
PlacesOf(name) ==
    { i \in 1..Len(collected.tool_calls) : collected.tool_calls[i].name = name }

SingleSource == \A k \in 1..Len(emitted) : emitted[k].via # "PartialThenFull"

\* C21. Aggregator observation order: the returned tool_calls list the calls
\* in the order in which the stream completed them, whichever of the three
\* sources each came through: a call completed earlier is never listed
\* after one completed later. Stated for streams that deliver each call
\* through one source only.
C21_ObservationOrder ==
    (collected.done /\ SingleSource) =>
        /\ collected.ok
        /\ \A i, j \in 1..Len(emitted) :
             i < j => \A a \in PlacesOf(emitted[i].call.name),
                         b \in PlacesOf(emitted[j].call.name) : a < b

\* The same, for the calls that came through the same source.
C21_OrderWithinSource ==
    (collected.done /\ SingleSource) =>
        /\ collected.ok
        /\ \A i, j \in 1..Len(emitted) :
             (i < j /\ emitted[i].via = emitted[j].via) =>
                 \A a \in PlacesOf(emitted[i].call.name),
                    b \in PlacesOf(emitted[j].call.name) : a < b

\* C22. Aggregator de-duplication: a call observed through more than one
\* source under the same call id is once in the returned tool_calls.
C22_DuplicatesEliminated ==
    collected.done =>
        /\ collected.ok
        /\ \A k \in 1..Len(emitted) :
             emitted[k].via = "PartialThenFull" =>
                 Cardinality({ i \in 1..Len(collected.tool_calls) :
                                 collected.tool_calls[i].call_id = emitted[k].call.call_id }) = 1

\* ------------------------------------------------------------------------
\* Properties of the structured edit tool (under SpecEdit)
\* ------------------------------------------------------------------------

\* The call went down the modify path: the target existed and the first
\* SEARCH was not empty, so the backup was taken.
ModifyPath == fs0[path].exists /\ blocks[1].search # <<>>

\* C2. Edit atomicity on failure: when persisting fails after the backup
\* was taken, the call reports the error and the target holds the content
\* it had before the call.
C2_EditAtomicOnFailure ==
    (editPc = "done" /\ ModifyPath /\ editRet.kind = "Err")
        => fs[path] = fs0[path]

\* Block b misses buffer buf at every level: no exact match, no normalised
\* match, and no equal chunk whose score reaches 0.7.
MissesEverything(buf, b) ==
    /\ b.search # <<>>
    /\ ~ExactHit(buf, b)
    /\ ~NormalizedHit(buf, b)
    /\ LET m == FuzzyBest(buf, b)
       IN  m[1] < 0 \/ ScoreDen * m[2] < ScoreNum * Len(b.search)

\* C3. Edit no-op: a diff none of whose blocks matches anything succeeds,
\* leaves the file byte-identical and returns the original content.
C3_EditNoOp ==
    (/\ editPc = "done"
     /\ ModifyPath
     /\ editRet.kind = "Ok"
     /\ \A i \in 1..Len(blocks) : MissesEverything(fs0[path].data, blocks[i]))
        => /\ fs[path] = fs0[path]
           /\ editRet.content = fs0[path].data

\* C4. First-block-empty overwrite: when the first SEARCH is empty, for any
\* target and any later blocks, the file content after a successful call is
\* exactly the first REPLACE body, and that body is returned.
C4_FirstEmptyOverwrites ==
    (editPc = "done" /\ blocks[1].search = <<>> /\ editRet.kind = "Ok")
        => /\ fs[path] = File(blocks[1].replace)
           /\ editRet.content = blocks[1].replace

\* The three statements above with the targets whose backup path is the
\* target itself left out.
EditClaimsOffBackupName ==
    backup_path(path) # path
        => C2_EditAtomicOnFailure /\ C3_EditNoOp /\ C4_FirstEmptyOverwrites

\* The longest Equal chunk of diff(buf, search) as <<start in buf, len>>
\* (<<-1, 0>> when there is none): the place in the buffer is the length of
\* the Equal and Delete chunks before it.
RECURSIVE LongestEqualChunk(_, _, _, _)
LongestEqualChunk(chunks, k, pos, best) ==
    IF k > Len(chunks) THEN best
    ELSE LET c == chunks[k]
             better == c.kind = "Equal" /\ Len(c.text) > best[2]
         IN  LongestEqualChunk(chunks, k + 1,
                               IF c.kind = "Insert" THEN pos ELSE pos + Len(c.text),
                               IF better THEN <<pos, Len(c.text)>> ELSE best)

\* The loop of apply_changes is at a block that misses the exact and the
\* normalised matching.
AtFuzzyBlock ==
    /\ editPc = "blocks"
    /\ blockIdx <= Len(blocks)
    /\ ~ExactHit(result, blocks[blockIdx])
    /\ ~NormalizedHit(result, blocks[blockIdx])

\* C28. Fuzzy threshold: a block that misses exact and normalised matching
\* is spliced over the longest equal chunk if and only if
\* longest_equal_len / search_len >= 0.7, a score of exactly 0.7 included;
\* below 0.7 the block is skipped; either way the edit does not fail and
\* goes on to the later blocks. Stated for the blocks whose longest equal
\* chunk has no Insert chunk before it, so that its place is not in
\* question.
C28_FuzzyThreshold ==
    [][ AtFuzzyBlock =>
          LET b == blocks[blockIdx]
              m == LongestEqualChunk(DiffMain(result, b.search), 1, 0, <<-1, 0>>)
          IN  m = FuzzyBest(result, b) =>
                /\ editPc' = "blocks"
                /\ blockIdx' = blockIdx + 1
                /\ editRet' = NoRet
                /\ result' = IF m[1] >= 0 /\ ScoreDen * m[2] >= ScoreNum * Len(b.search)
                             THEN ReplaceRange(result, m[1], m[1] + m[2], b.replace)
                             ELSE result
      ]_vars

\* What the loop does at such a block: the splice is made when the score is
\* above 0.7, and a score of 0.7 or less skips the block.
C28_StrictlyAboveThreshold ==
    [][ AtFuzzyBlock =>
          LET b == blocks[blockIdx]
              m == LongestEqualChunk(DiffMain(result, b.search), 1, 0, <<-1, 0>>)
          IN  m = FuzzyBest(result, b) =>
                /\ editPc' = "blocks"
                /\ blockIdx' = blockIdx + 1
                /\ editRet' = NoRet
                /\ result' = IF m[1] >= 0 /\ ScoreDen * m[2] > ScoreNum * Len(b.search)
                             THEN ReplaceRange(result, m[1], m[1] + m[2], b.replace)
                             ELSE result
      ]_vars

\* A block was skipped with a score of exactly 0.7.
C28_AtThreshold ==
    /\ editPc = "blocks"
    /\ blockIdx > 1
    /\ LET b == blocks[blockIdx - 1]
           m == FuzzyBest(fs0[path].data, b)
       IN  /\ blockIdx = 2
           /\ ~ExactHit(fs0[path].data, b)
           /\ m[1] >= 0
           /\ ScoreDen * m[2] = ScoreNum * Len(b.search)

\* The call returned, with a value or with an error.
Returned == editPc = "done" /\ editRet.kind \in { "Ok", "Err" }

\* C27. Backup lifecycle: an edit of an existing file (first SEARCH not
\* empty) creates its backup as the sibling <path>.bak, the target's full
\* name with ".bak" appended, before the target is written; when the call
\* returns that backup no longer exists.
C27_BackupLifecycle ==
    /\ (editPc = "blocks" /\ ModifyPath) =>
            /\ fs[AppendBak(path)] = File(fs0[path].data)
            /\ fs[path] = fs0[path]
    /\ (Returned /\ ModifyPath) => ~fs[AppendBak(path)].exists

\* The lifecycle of the file the code takes as the backup, the target's
\* name with its extension replaced by "bak", when that is another file
\* than the target.
C27_BackupAtReplacedExtension ==
    backup_path(path) # path =>
        /\ (editPc = "blocks" /\ ModifyPath) =>
                /\ fs[backup_path(path)] = File(fs0[path].data)
                /\ fs[path] = fs0[path]
                /\ ~fs[AppendBak(path)].exists
        /\ (Returned /\ ModifyPath) => ~fs[backup_path(path)].exists

\* ------------------------------------------------------------------------
\* Properties of the orchestrator
\* ------------------------------------------------------------------------

\* The for loop over the tool calls of the completion has ended.
TurnIsOver == Running /\ Top.pc = "tools" /\ Top.cIdx > Len(Top.calls)

HasToolMessage(ctx) == \E i \in 1..Len(ctx.messages) : ctx.messages[i].role = "Tool"

\* C1. init_agent starts a further turn if and only if the turn it has just
\* completed produced at least one ToolResult; a turn whose completion has
\* no tool call makes it return, and after it has returned it makes no
\* further provider request.
C1_FurtherTurnIffResults ==
    [][ /\ TurnIsOver =>
            /\ Len(stack') = Len(stack)
            /\ (Top'.pc = "transform") <=> (Top.results # <<>>)
            /\ (Top'.pc = "return") <=> (Top.results = <<>>)
            /\ Top.calls = <<>> => Top'.pc = "return"
        /\ (Running /\ Top.pc = "return") =>
            /\ Len(stack') < Len(stack)
            /\ turns' = turns
      ]_vars

\* The head agent went through a turn with a ToolResult, so took a further
\* turn, and has returned from a turn without tool calls.
C1_Witness ==
    /\ Running
    /\ Len(stack) = 1
    /\ Top.pc = "return"
    /\ Top.calls = <<>>
    /\ HasToolMessage(Top.context)

AtTap(fr) ==
    /\ fr.pc = "transform"
    /\ fr.tIdx <= Len(Transforms(fr))
    /\ Transforms(fr)[fr.tIdx].kind = "Tap"

\* C6. A Tap transform never mutates the context: from the moment
\* execute_transform reaches the Tap until it has gone past it, whatever the
\* tapped agent does, the context (messages, tools, tool choice) is the one
\* it was.
C6_TapKeepsContext ==
    [][ \A i \in 1..Len(stack) :
          (AtTap(stack[i]) /\ i <= Len(stack')) =>
              /\ stack'[i].context = stack[i].context
              /\ stack'[i].tIdx \in { stack[i].tIdx, stack[i].tIdx + 1 }
      ]_vars

\* An agent has gone past its Tap after the tapped agent wrote a variable
\* and stored its own context.
C6_Witness ==
    /\ Running
    /\ Top.pc = "chat"
    /\ Transforms(Top) # <<>>
    /\ Transforms(Top)[1].kind = "Tap"
    /\ state[Transforms(Top)[1].agent_id].present
    /\ variables["out"].set

AgentCallPending(fr) ==
    /\ fr.pc = "tools"
    /\ fr.cIdx <= Len(fr.calls)
    /\ IsAgentCall(CurrentCall(fr))

NonAgentCalls(calls) == { j \in 1..Len(calls) : ~IsAgentCall(calls[j]) }

\* C7. Sub-agent as tool: a tool call named by the id of agent B starts B on
\* the variables made of the call's arguments; the caller stands still until
\* B's run has returned and then goes on to its next call with no ToolResult
\* added; the Assistant message of the turn records every call, and the
\* results that follow it are those of the other calls only.
C7_SubAgentAsTool ==
    [][ /\ (InTools /\ IsAgentCall(CurrentCall(Top))) =>
            /\ Len(stack') = Len(stack) + 1
            /\ stack'[Len(stack)] = Top
            /\ Top'.agent = CurrentCall(Top).name
            /\ Top'.input = VariablesFrom(CurrentCall(Top).arguments)
            /\ Top'.pc = "transform"
        /\ \A i \in 1..(Len(stack) - 1) :
             AgentCallPending(stack[i]) =>
                 \/ stack' = <<>> /\ status' # "running"
                 \/ Len(stack') > i /\ stack'[i] = stack[i]
                 \/ /\ Len(stack') = i
                    /\ i = Len(stack) - 1
                    /\ Top.pc = "return"
                    /\ stack'[i] = [stack[i] EXCEPT !.cIdx = @ + 1]
        /\ TurnIsOver =>
             LET old == Top.context.messages
                 new == Top'.context.messages
             IN  /\ Len(new) = Len(old) + 1 + Cardinality(NonAgentCalls(Top.calls))
                 /\ SubSeq(new, 1, Len(old)) = old
                 /\ new[Len(old) + 1] = ContentMessage("Assistant", Top.content, Top.calls)
                 /\ \A j \in (Len(old) + 2)..Len(new) :
                      /\ new[j].role = "Tool"
                      /\ ~find_agent(new[j].result.name)
      ]_vars

\* Agent A has ended a turn whose completion called agent B and then a
\* registered tool: one result, and B has run.
C7_Witness ==
    /\ Running
    /\ Len(stack) = 1
    /\ Top.agent = "A"
    /\ Top.pc = "transform"
    /\ Top.calls = <<CallB("c1"), CallFs("c2")>>
    /\ Len(Top.results) = 1
    /\ Top.context.messages[Len(Top.context.messages)].role = "Tool"
    /\ Top.context.messages[Len(Top.context.messages) - 1].tool_calls = Top.calls
    /\ turns >= 2

Contains(text, token) == \E i \in 1..Len(text) : text[i] = token

UnknownTool(call) == IsServiceCall(call) /\ call.name \notin Registry

\* C8. An unknown tool is recoverable: the call yields a ToolResult whose
\* content names the requested tool and every registered tool; execute goes
\* on, the result is added to the context at the end of the turn and the
\* agent goes into another turn.
C8_UnknownToolRecoverable ==
    [][ /\ (InTools /\ UnknownTool(CurrentCall(Top))) =>
            /\ status' = "running"
            /\ Len(stack') = Len(stack)
            /\ Len(Top'.results) = Len(Top.results) + 1
            /\ LET r == Top'.results[Len(Top'.results)]
               IN  /\ r.name = CurrentCall(Top).name
                   /\ r.call_id = CurrentCall(Top).call_id
                   /\ Contains(r.content, CurrentCall(Top).name)
                   /\ \A k \in Registry : Contains(r.content, k)
        /\ (TurnIsOver /\ \E j \in 1..Len(Top.calls) : UnknownTool(Top.calls[j])) =>
            /\ status' = "running"
            /\ Top'.pc = "transform"
            /\ \A j \in 1..Len(Top.calls) :
                 UnknownTool(Top.calls[j]) =>
                   \E m \in (Len(Top.context.messages) + 1)..Len(Top'.context.messages) :
                      /\ Top'.context.messages[m].role = "Tool"
                      /\ Top'.context.messages[m].result.name = Top.calls[j].name
                      /\ Contains(Top'.context.messages[m].result.content, Top.calls[j].name)
      ]_vars

\* The agent is in the turn after the one that called the unknown tool, and
\* the result of that call is the last message of the context it sends.
C8_Witness ==
    /\ Running
    /\ Top.pc = "chat"
    /\ Top.context.messages[Len(Top.context.messages)].role = "Tool"
    /\ Top.context.messages[Len(Top.context.messages)].result.name = "nope"

\* C9. Dispatcher result wrapping: when the executor succeeds the result
\* has is_error = false and the executor's value as its content; when the
\* executor fails or the name is unknown the result has is_error = true and
\* the content "<error>" + message + "</error>".
C9_ResultWrapping ==
    lastSvc.called =>
        IF lastSvc.ok
        THEN /\ ~lastSvc.result.is_error
             /\ lastSvc.result.content = lastSvc.payload
        ELSE /\ lastSvc.result.is_error
             /\ lastSvc.result.content = <<"<error>">> \o lastSvc.payload \o <<"</error>">>

\* C10. A provider failure terminates the turn: init_agent returns the
\* error (and so does every caller); no tool of that completion has run, no
\* message is added and the state of every agent is the one its last
\* completed turn stored. The state changes at the end of a turn only.
C10_ProviderFailureEndsTurn ==
    [][ /\ (Running /\ status' = "ErrProvider") =>
            /\ Top.pc = "chat"
            /\ stack' = <<>>
            /\ state' = state
            /\ variables' = variables
            /\ lastSvc' = lastSvc
        /\ state' # state =>
            /\ TurnIsOver
            /\ ~workflow[Top.agent].ephemeral
            /\ state' = [state EXCEPT ![Top.agent] = [present |-> TRUE, ctx |-> Top'.context]]
            /\ Top'.context.messages[Len(Top.context.messages) + 1].role = "Assistant"
      ]_vars

\* The provider failed in a later turn of an agent whose first turn, with
\* its tool result, is stored.
C10_Witness ==
    /\ status = "ErrProvider"
    /\ state[HeadAgent].present
    /\ HasToolMessage(state[HeadAgent].ctx)

\* ------------------------------------------------------------------------
\* Properties of the context builders
\* ------------------------------------------------------------------------

\* C20. set_first_system_message(c) on any context (empty, or starting with
\* a System, User, Assistant, ToolResult or Attachments message) returns a
\* context whose first message is System(c) and whose other messages are
\* the original ones, less a replaced leading System message, in their
\* order.
C20_SystemMessageFirst ==
    ctxPc = "done" =>
        /\ ctxOut.messages # <<>>
        /\ ctxOut.messages[1] = ContentMessage("System", ctxText, <<>>)
        /\ Tail(ctxOut.messages) =
              IF LeadingSystem(ctxIn) THEN Tail(ctxIn.messages) ELSE ctxIn.messages
        /\ ctxOut.tools = ctxIn.tools
        /\ ctxOut.tool_choice = ctxIn.tool_choice

\* The same for the contexts that are empty or start with a content message.
C20_OnContentMessages ==
    (ctxPc = "done" /\ ctxIn.messages # <<>>
       => ctxIn.messages[1].role \in { "System", "User", "Assistant" })
    => C20_SystemMessageFirst

\* ------------------------------------------------------------------------
\* Properties of the orchestrator: errors, the subscriber, recursion
\* ------------------------------------------------------------------------

FatalStatus == { "ErrAgentUndefined", "ErrUndefinedVariable", "ErrProvider" }

\* C11. An undefined transform variable is fatal: when the sub-agent of a
\* User or Assistant transform has returned and the variables have no entry
\* for the output key, execute fails with UndefinedVariable; no provider
\* request follows and no entry of the state is written.
C11_UndefinedVariableFatal ==
    [][ /\ (/\ Running
            /\ Top.pc = "output"
            /\ ~variables[Transforms(Top)[Top.tIdx].output].set) =>
               /\ status' = "ErrUndefinedVariable"
               /\ stack' = <<>>
               /\ state' = state
               /\ turns' = turns
        /\ status = "ErrUndefinedVariable" =>
               /\ status' = status
               /\ state' = state
               /\ turns' = turns
      ]_vars

\* execute has failed on the output of a summarising transform: the
\* sub-agent ran its turn and stored its context, the transforming agent
\* stored nothing after the turn that filled its context.
C11_Witness ==
    /\ status = "ErrUndefinedVariable"
    /\ workflow[HeadAgent].transforms # <<>>
    /\ workflow[HeadAgent].transforms[1].kind = "Assistant"
    /\ ~variables["out"].set
    /\ turns >= 2

\* C12. Fatal errors reach the subscriber: when execute has ended with an
\* unknown agent, an undefined transform variable or a provider failure and
\* a subscriber is attached, the channel carries an error item.
C12_FatalErrorsReachSubscriber ==
    (sender /\ status \in FatalStatus) =>
        \E i \in 1..Len(channel) : ~channel[i].message.ok

\* C13. Streaming to the subscriber: with a subscriber attached, once the
\* completion of a turn is collected the channel carries an item for its
\* text, and an item for every tool call of the turn that has ended.
C13_TurnsAreStreamed ==
    (sender /\ Running /\ Top.pc = "tools") =>
        /\ \E i \in 1..Len(channel) :
              /\ channel[i].agent = Top.agent
              /\ channel[i].message.ok
        /\ Len(channel) >= 1 + Len(Top.results)

\* A configured recursion bound below the depth this model explores.
RecursionBound == MaxDepth - 1

\* C14. Bounded recursion: the nesting depth of the init_agent invocations
\* never exceeds the configured bound.
C14_BoundedRecursion == Len(stack) <= RecursionBound

\* C15. The state holds entries for non-ephemeral agents only, and right
\* after a completed turn of a non-ephemeral agent its entry is the
\* agent's context at the end of the turn, with the turn's Assistant
\* message and ToolResults.
C15_StateOfNonEphemeralOnly ==
    [][ /\ \A a \in Agents :
             workflow[a].ephemeral => ~state[a].present /\ ~state'[a].present
        /\ (TurnIsOver /\ ~workflow[Top.agent].ephemeral) =>
             /\ state'[Top.agent].present
             /\ state'[Top.agent].ctx = Top'.context
             /\ Top'.context = TurnContext(Top)
      ]_vars

\* execute is over; the head agent keeps its context, with the call of the
\* ephemeral agent B in it, and B, which ran a turn, has no entry.
C15_Witness ==
    /\ status = "Ok"
    /\ ~workflow["A"].ephemeral
    /\ workflow["B"].ephemeral
    /\ state["A"].present
    /\ ~state["B"].present
    /\ \E i \in 1..Len(state["A"].ctx.messages) :
          state["A"].ctx.messages[i].tool_calls = <<CallB("c1")>>

\* C16. The writes of an agent's entry are totally ordered without lost
\* updates: each is made by a turn whose context comes from the entry
\* written last, also when the agent is entered again during its turn.
C16_NoLostUpdate ==
    [][ (TurnIsOver /\ StoresContext(Top.agent)) => Top.seen = writes[Top.agent] ]_vars

LockedSection == { "locked", "output" }

\* C17. No lock is held across a suspension on external work: a lock is
\* held only while the innermost invocation is between taking it and the
\* end of the guard's scope, never while a provider request, a tool or a
\* nested init_agent is in progress; so an invocation that takes a lock
\* finds it free.
C17_NoLockAcrossSuspension ==
    /\ held # {} => Running /\ Top.pc \in LockedSection
    /\ \A i \in 1..(Len(stack) - 1) : stack[i].pc \notin LockedSection
    /\ (InTools /\ (IsReadVariable(CurrentCall(Top)) \/ IsWriteVariable(CurrentCall(Top))))
         => "variables" \notin held
    /\ (Running /\ Top.pc = "return" /\ Len(stack) > 1) => held = {}
    /\ TurnIsOver => "state" \notin held

\* The sub-agent of a User transform holds the lock of the variables for its
\* write while the transforming agent waits for it.
C17_Witness ==
    /\ Running
    /\ Len(stack) = 2
    /\ Top.pc = "locked"
    /\ held = { "variables" }
    /\ Transforms(stack[1]) # <<>>
    /\ Transforms(stack[1])[stack[1].tIdx].kind = "User"

\* ------------------------------------------------------------------------
\* Properties of the contexts of the orchestrator
\* ------------------------------------------------------------------------

StoredContexts == { state[a].ctx : a \in { b \in Agents : state[b].present } }

\* The context of the request the innermost invocation is about to make.
SentContexts == IF Running /\ Top.pc = "chat" THEN { Top.context } ELSE {}

ProducedContexts == { stack[i].context : i \in 1..Len(stack) } \cup StoredContexts

\* Messages i < j with nothing but ToolResults between them.
Neighbours(msgs, i, j) ==
    /\ i < j
    /\ msgs[i].role # "Tool"
    /\ msgs[j].role # "Tool"
    /\ \A k \in (i + 1)..(j - 1) : msgs[k].role = "Tool"

Alternates(msgs) ==
    \A i \in 1..Len(msgs), j \in 1..Len(msgs) :
        Neighbours(msgs, i, j) =>
            /\ ~(msgs[i].role = "User" /\ msgs[j].role = "User")
            /\ ~(msgs[i].role = "Assistant" /\ msgs[j].role = "Assistant" /\ j = i + 1)
            /\ msgs[i].role = "User" => j = i + 1

\* C18. Message alternation: in every context that init_agent sends to the
\* provider or stores in the state, User and Assistant messages alternate,
\* an Assistant message possibly followed by a batch of ToolResults before
\* the next Assistant message, from the first turn of a fresh context on.
C18_MessagesAlternate ==
    \A ctx \in SentContexts \cup StoredContexts : Alternates(ctx.messages)

\* The results rs are, in their order, results of calls among cs.
RECURSIVE MatchesInOrder(_, _)
MatchesInOrder(rs, cs) ==
    IF rs = <<>> THEN TRUE
    ELSE IF cs = <<>> THEN FALSE
    ELSE IF Head(rs).name = Head(cs).name /\ Head(rs).call_id = Head(cs).call_id
         THEN MatchesInOrder(Tail(rs), Tail(cs))
         ELSE MatchesInOrder(rs, Tail(cs))

\* The batch of ToolResults that message i is part of: its first and last
\* index.
BatchFirst(msgs, i) ==
    Min({ k \in 1..i : \A m \in k..i : msgs[m].role = "Tool" })
BatchLast(msgs, i) ==
    CHOOSE k \in i..Len(msgs) :
        /\ \A m \in i..k : msgs[m].role = "Tool"
        /\ k = Len(msgs) \/ msgs[k + 1].role # "Tool"

ToolResultsMatch(msgs) ==
    \A i \in 1..Len(msgs) :
        msgs[i].role = "Tool" =>
            LET f == BatchFirst(msgs, i)
                l == BatchLast(msgs, i)
            IN  /\ f > 1
                /\ msgs[f - 1].role = "Assistant"
                /\ MatchesInOrder([k \in 1..(l - f + 1) |-> msgs[f + k - 1].result],
                                  msgs[f - 1].tool_calls)

\* C19. ToolResult matching: in every context init_agent produces, each
\* ToolResult is in a batch that comes right after an Assistant message and
\* is the result of a call recorded in that message, the results of a batch
\* being in the order of their calls.
C19_ToolResultsMatchCalls ==
    \A ctx \in ProducedContexts : ToolResultsMatch(ctx.messages)

\* A stored context ends with a batch of two results, of the first and of
\* the second call of the Assistant message before them.
C19_Witness ==
    \E a \in Agents :
        /\ state[a].present
        /\ LET msgs == state[a].ctx.messages
               n == Len(msgs)
           IN  /\ n >= 3
               /\ msgs[n].role = "Tool"
               /\ msgs[n - 1].role = "Tool"
               /\ msgs[n - 2].tool_calls = <<CallFs("c1"), CallNope("c2")>>
               /\ msgs[n - 1].result.call_id = "c1"
               /\ msgs[n].result.call_id = "c2"

\* ------------------------------------------------------------------------
\* Properties of the tool loop of init_agent
\* ------------------------------------------------------------------------

InToolLoop(fr) == fr.pc \in { "tools", "locked" } /\ fr.cIdx <= Len(fr.calls)

CallKey(c) == <<c.name, c.call_id>>

\* The calls before the one the loop is at that are not agent calls.
DispatchedCalls(fr) ==
    SelectSeq(SubSeq(fr.calls, 1, fr.cIdx - 1), LAMBDA c : ~IsAgentCall(c))

\* The results so far are those of the calls dispatched so far, in order.
ResultsFollowCalls(fr) ==
    [k \in 1..Len(fr.results) |-> CallKey(fr.results[k])]
        = [k \in 1..Len(DispatchedCalls(fr)) |-> CallKey(DispatchedCalls(fr)[k])]

\* C23. Sequential tool dispatch: the calls of a turn are executed one at a
\* time in the order of the aggregated list. While call i is running,
\* a whole sub-agent run included, the loop stands at i; it moves to i + 1
\* only in a step that leaves nothing of call i running, with the result of
\* call i, if it has one, appended last; the results are in the order of
\* their calls.
C23_SequentialDispatch ==
    [][ \A i \in 1..Len(stack) :
          LET fr == stack[i]
          IN  /\ fr.pc \in { "tools", "locked" } => ResultsFollowCalls(fr)
              /\ InToolLoop(fr) =>
                    \/ stack' = <<>> /\ status' # "running"
                    \/ /\ i <= Len(stack')
                       /\ stack'[i].calls = fr.calls
                       /\ \/ /\ stack'[i].cIdx = fr.cIdx
                             /\ stack'[i].results = fr.results
                             /\ (i = Len(stack) /\ Len(stack') > i) =>
                                    /\ Len(stack') = i + 1
                                    /\ stack'[i + 1].agent = fr.calls[fr.cIdx].name
                          \/ /\ stack'[i].cIdx = fr.cIdx + 1
                             /\ Len(stack') = i
                             /\ \/ i = Len(stack)
                                \/ i = Len(stack) - 1 /\ Top.pc = "return"
                             /\ \/ stack'[i].results = fr.results
                                \/ /\ Len(stack'[i].results) = Len(fr.results) + 1
                                   /\ SubSeq(stack'[i].results, 1, Len(fr.results)) = fr.results
                                   /\ CallKey(stack'[i].results[Len(fr.results) + 1])
                                        = CallKey(fr.calls[fr.cIdx])
      ]_vars

\* Agent A's turn of two calls is over: agent B ran as the first call, a
\* whole run with its own provider request, and only then the registered
\* tool of the second call, whose result is the only one.
C23_Witness ==
    /\ Running
    /\ Len(stack) = 1
    /\ Top.pc = "tools"
    /\ Top.calls = <<CallB("c1"), CallFs("c2")>>
    /\ Top.cIdx = 3
    /\ Len(Top.results) = 1
    /\ Top.results[1].call_id = "c2"
    /\ turns >= 2
    /\ lastSvc.called

\* ------------------------------------------------------------------------
\* Properties of the User transform
\* ------------------------------------------------------------------------

AtUser(fr) ==
    /\ fr.pc \in { "transform", "output" }
    /\ fr.tIdx <= Len(Transforms(fr))
    /\ Transforms(fr)[fr.tIdx].kind = "User"

LastMessage(ctx) == ctx.messages[Len(ctx.messages)]

EndsWithUser(ctx) == ctx.messages # <<>> /\ LastMessage(ctx).role = "User"

\* The text of a JSON string value, as serde_json::to_string gives it.
ValueText(v) == <<"\"">> \o v \o <<"\"">>

\* C24. User transform: with a User content message last, the named
\* sub-agent is run with input_key bound to that message's content, the
\* context standing still meanwhile, and afterwards the message's content is
\* the old content followed by "\n<output_key>\n" + value + "\n</output_key>",
\* value being the text of Variables[output_key]; with any other message
\* last the sub-agent is not run and the context and the variables are
\* unchanged.
C24_UserTransform ==
    [][ \A i \in 1..Len(stack) :
          LET fr == stack[i]
              t == Transforms(fr)[fr.tIdx]
              n == Len(fr.context.messages)
          IN  AtUser(fr) =>
                IF ~EndsWithUser(fr.context)
                THEN /\ i = Len(stack)
                     /\ fr.pc = "transform"
                     /\ Len(stack') = Len(stack)
                     /\ stack'[i] = [fr EXCEPT !.tIdx = @ + 1]
                     /\ variables' = variables
                ELSE IF fr.pc = "transform" /\ i = Len(stack)
                THEN /\ Len(stack') = i + 1
                     /\ stack'[i] = fr
                     /\ stack'[i + 1].agent = t.agent_id
                     /\ stack'[i + 1].input = { <<t.input, LastMessage(fr.context).content>> }
                     /\ variables' = variables
                ELSE IF fr.pc = "transform"
                THEN \/ stack' = <<>> /\ status' # "running"
                     \/ Len(stack') > i /\ stack'[i] = fr
                     \/ /\ Len(stack') = i
                        /\ stack'[i] = [fr EXCEPT !.pc = "output"]
                ELSE IF variables[t.output].set
                THEN /\ Len(stack') = i
                     /\ stack'[i].pc = "transform"
                     /\ stack'[i].tIdx = fr.tIdx + 1
                     /\ Len(stack'[i].context.messages) = n
                     /\ SubSeq(stack'[i].context.messages, 1, n - 1)
                          = SubSeq(fr.context.messages, 1, n - 1)
                     /\ stack'[i].context.messages[n] =
                          [fr.context.messages[n] EXCEPT !.content =
                              @ \o <<"LF", "<", t.output, ">", "LF">>
                                \o ValueText(variables[t.output].val)
                                \o <<"LF", "</", t.output, ">">>]
                     /\ variables' = variables
                ELSE stack' = <<>> /\ status' = "ErrUndefinedVariable"
      ]_vars

\* Agent A, whose transform is a User transform, is about to make a request
\* in a later turn: the transform extended the User message of its first
\* turn with the output of the sub-agent, and did nothing in this turn,
\* whose last message is a ToolResult.
C24_Witness ==
    /\ Running
    /\ Top.pc = "chat"
    /\ Transforms(Top) # <<>>
    /\ Transforms(Top)[1].kind = "User"
    /\ LastMessage(Top.context).role = "Tool"
    /\ \E m \in 1..Len(Top.context.messages) :
         /\ Top.context.messages[m].role = "User"
         /\ Contains(Top.context.messages[m].content, "</")
         /\ Contains(Top.context.messages[m].content, "v")

\* ------------------------------------------------------------------------
\* Properties of the variable tools
\* ------------------------------------------------------------------------

ToolNames(ctx) == { ctx.tools[k] : k \in 1..Len(ctx.tools) }

\* C25. The variable tools are available to every agent: the tool
\* definitions of the context built for any agent include the read-variable
\* and the write-variable tool, whatever tools the agent declares.
C25_VariableToolsForAll ==
    \A i \in 1..Len(stack) :
        { ReadVariableName, WriteVariableName } \subseteq ToolNames(stack[i].context)

\* The same for the agents that declare the two tools.
C25_DeclaredVariableTools ==
    \A i \in 1..Len(stack) :
        { ReadVariableName, WriteVariableName } \cap workflow[stack[i].agent].tools
            \subseteq ToolNames(stack[i].context)

\* A read-variable call for a key the store does not hold is being served.
MissingRead ==
    /\ Locked
    /\ IsReadVariable(CurrentCall(Top))
    /\ ~(ArgOf(CurrentCall(Top), "name") \in VarKeys
          /\ variables[ArgOf(CurrentCall(Top), "name")].set)

\* What every missing-key read does: execute goes on, the store is
\* unchanged and the result of the call reports "Variable <name> not found".
MissingReadReported ==
    /\ status' = "running"
    /\ variables' = variables
    /\ Len(stack') = Len(stack)
    /\ Len(Top'.results) = Len(Top.results) + 1
    /\ LET r == Top'.results[Len(Top'.results)]
       IN  /\ r.name = CurrentCall(Top).name
           /\ r.call_id = CurrentCall(Top).call_id
           /\ r.content = <<"Variable ", ArgOf(CurrentCall(Top), "name"), " not found">>

\* C26. A missing-key read is not an error: a read-variable call for a key
\* absent from the store returns a ToolResult that reports "Variable <name>
\* not found" and is not flagged as an error; execute does not fail and
\* the store is unchanged.
C26_MissingReadNotError ==
    [][ MissingRead =>
          /\ MissingReadReported
          /\ ~Top'.results[Len(Top'.results)].is_error
      ]_vars

\* The same without the flag.
C26_MissingReadRecoverable == [][ MissingRead => MissingReadReported ]_vars

\* ------------------------------------------------------------------------
\* Properties of the command parser (under SpecCommand)
\* ------------------------------------------------------------------------

C29_TotalOffConfig ==
    (cmdPc = "done" /\ ~StartsWithConfig(Trim(cmdIn))) => cmdOut.ok

\* The command of each directive that is one word.
Directives ==
    [d \in { "/new", "/reload", "/info", "/exit", "/end", "/models" } |->
        IF d = "/new" THEN "New"
        ELSE IF d = "/reload" THEN "Reload"
        ELSE IF d = "/info" THEN "Info"
        ELSE IF d = "/exit" THEN "Exit"
        ELSE IF d = "/end" THEN "End"
        ELSE "Models"]

\* The trimmed text is the /config directive: the word /config alone or
\* followed by white space and arguments.
IsConfigDirective(t) == t # <<>> /\ t[1] = "/config" /\ (Len(t) = 1 \/ t[2] = " ")

\* C30. Command dispatch: each directive of {/new, /reload, /info, /exit,
\* /end, /config ..., /models} parses to its own command, and every other
\* input, text that only begins with the characters of a directive
\* included, parses to Message(trimmed text).
C30_Dispatch ==
    cmdPc = "done" =>
        LET t == Trim(cmdIn)
        IN  IF Len(t) = 1 /\ t[1] \in DOMAIN Directives
            THEN cmdOut = CmdOk(Cmd(Directives[t[1]]))
            ELSE IF IsConfigDirective(t)
            THEN cmdOut.ok => cmdOut.cmd.kind = "Config"
            ELSE cmdOut = CmdOk(CmdMessage(t))

\* The dispatch of the code: /models is a message like any other text, and
\* whatever starts with the characters /config is a config command.
C30_DispatchOffModelsAndConfig ==
    cmdPc = "done" =>
        LET t == Trim(cmdIn)
        IN  IF StartsWithConfig(t)
            THEN cmdOut.ok => cmdOut.cmd.kind = "Config"
            ELSE IF Len(t) = 1 /\ t[1] \in DOMAIN Directives \ { "/models" }
            THEN cmdOut = CmdOk(Cmd(Directives[t[1]]))
            ELSE cmdOut = CmdOk(CmdMessage(t))

\* ------------------------------------------------------------------------
\* Properties of agents run as tools
\* ------------------------------------------------------------------------

\* The messages of a context built afresh for that agent and input: the
\* system prompt and the user prompt.
FreshMessages(agent, input) ==
    { ContentMessage("System", RenderSystem(agent), <<>>),
      ContentMessage("User", RenderUser(agent, input), <<>>) }

StartsFresh(fr) ==
    \A m \in 1..Len(fr.context.messages) :
        fr.context.messages[m] \in FreshMessages(fr.agent, fr.input)

\* C31. An agent invoked as a tool starts fresh: for every agent, ephemeral
\* or not, started by a tool call, the context of its first provider
\* request holds only its system prompt and the user prompt rendered from
\* the call's arguments, and no message of an earlier invocation.
C31_ToolAgentStartsFresh ==
    [][ (InTools /\ IsAgentCall(CurrentCall(Top)) /\ Len(stack') = Len(stack) + 1) =>
          /\ Top'.agent = CurrentCall(Top).name
          /\ Top'.input = AgentInput(CurrentCall(Top))
          /\ StartsFresh(Top')
      ]_vars

\* The same for the agents that are ephemeral or have no stored context.
C31_FreshWithoutStoredContext ==
    [][ (/\ InTools /\ IsAgentCall(CurrentCall(Top)) /\ Len(stack') = Len(stack) + 1
         /\ \/ workflow[CurrentCall(Top).name].ephemeral
            \/ ~state[CurrentCall(Top).name].present) =>
          /\ Top'.agent = CurrentCall(Top).name
          /\ Top'.input = AgentInput(CurrentCall(Top))
          /\ StartsFresh(Top')
      ]_vars

\* ------------------------------------------------------------------------
\* Termination without tool calls
\* ------------------------------------------------------------------------

\* The agents the transforms of an agent start, and the agents started
\* from those.
TransformAgents(a) ==
    { workflow[a].transforms[i].agent_id : i \in 1..Len(workflow[a].transforms) }

TransformReach(a) ==
    TransformAgents(a) \cup UNION { TransformAgents(b) : b \in TransformAgents(a) \cap Agents }

TransformCycle ==
    \E a \in ({ HeadAgent } \cup TransformReach(HeadAgent)) \cap Agents : a \in TransformReach(a)

\* The first transform of the head agent starts the head agent itself
\* whatever the context is.
HeadStartsItself ==
    /\ workflow[HeadAgent].transforms # <<>>
    /\ workflow[HeadAgent].transforms[1].agent_id = HeadAgent
    /\ workflow[HeadAgent].transforms[1].kind \in { "Tap", "User" }

ExecuteOver == status \notin { "idle", "running" }

C32_TerminatesWithoutCycle == (status = "running" /\ ~TransformCycle) ~> ExecuteOver

\* With a head agent whose first transform starts the head agent, every
\* step of a running execute is one more init_agent inside the last, and no
\* request is ever made.
C32_SelfTransformOnlyDescends ==
    [][ (Running /\ HeadStartsItself) =>
          /\ Len(stack') = Len(stack) + 1
          /\ Top'.agent = HeadAgent
          /\ Top'.pc = "transform"
          /\ turns' = 0 /\ status' = "running"
      ]_vars

C32_Descending == Running /\ HeadStartsItself /\ Len(stack) >= 2

\* ------------------------------------------------------------------------
\* The target and the other files after an edit call
\* ------------------------------------------------------------------------

\* C33. After every successful edit call, for every target path and every
\* file name (one that ends in .bak included), the target file exists and
\* its content equals the content the call returned.
C33_TargetHoldsReturnedContent ==
    (editPc = "done" /\ editRet.kind = "Ok") => fs[path] = File(editRet.content)

\* The same for the targets whose backup path is another file.
C33_TargetHoldsReturnedOffBackupName ==
    (editPc = "done" /\ editRet.kind = "Ok" /\ backup_path(path) # path)
        => fs[path] = File(editRet.content)

\* C34. Edit frame: an edit call, successful or failed, changes no file
\* other than its target: every other file that existed before the call
\* exists after it with the same content.
C34_EditFrame ==
    Returned => \A p \in FsPaths \ { path } : fs0[p].exists => fs[p] = fs0[p]

\* The files other than the target and the one at its backup path are
\* left alone, and no file is created beside the target.
C34_FrameOffBackupPath ==
    Returned => \A p \in FsPaths \ { path, backup_path(path) } : fs[p] = fs0[p]

\* ------------------------------------------------------------------------
\* The declared tools of an agent
\* ------------------------------------------------------------------------

\* The call the frame is at names something that exists (a registry tool, a
\* variable tool or an agent) and is outside the declared tools of the
\* frame's agent.
AtUndeclaredCall(fr) ==
    /\ fr.pc \in { "tools", "locked" }
    /\ fr.cIdx <= Len(fr.calls)
    /\ CurrentCall(fr).name \in Registry \cup Agents \cup { ReadVariableName, WriteVariableName }
    /\ CurrentCall(fr).name \notin workflow[fr.agent].tools

\* The step passes over the call: the loop goes on to the next call with
\* no result or with an error result, or the run ends with an error.
PassesOver ==
    \/ status' \notin { "running", "Ok" }
    \/ /\ Len(stack') = Len(stack)
       /\ Top'.pc = "tools"
       /\ Top'.cIdx = Top.cIdx + 1
       /\ \/ Top'.results = Top.results
          \/ /\ Len(Top'.results) = Len(Top.results) + 1
             /\ Top'.results[Len(Top'.results)].is_error

\* C35. Allowed tools are enforced: a tool call naming a registry tool, a
\* variable tool or an agent outside the declared tools of the agent whose
\* turn it is, is not executed: no executor runs, no variable is read or
\* written, no agent is started, and Variables and the stored contexts
\* stay as they are.
C35_AllowedToolsEnforced ==
    [][ (Running /\ AtUndeclaredCall(Top)) =>
          /\ PassesOver
          /\ variables' = variables
          /\ state' = state
          /\ held' = held
      ]_vars

\* What the declared tools do decide: the definitions sent to the provider.
C35_AdvertisedToolsDeclared ==
    \A i \in 1..Len(stack) : \A k \in 1..Len(stack[i].context.tools) :
        stack[i].context.tools[k] \in workflow[stack[i].agent].tools

\* ------------------------------------------------------------------------
\* The output variable of a transform
\* ------------------------------------------------------------------------

\* The place of the last User message of a context: the message init_agent
\* added when the invocation began (0 when there is none).
LastUserIndex(ctx) ==
    LET us == { m \in 1..Len(ctx.messages) : ctx.messages[m].role = "User" }
    IN  IF us = {} THEN 0 ELSE CHOOSE m \in us : \A n \in us : n <= m

\* The agent of the frame has written the variable in this invocation: a
\* completion after the invocation's User message carries the call.
WroteInInvocation(fr, key) ==
    \E m \in (LastUserIndex(fr.context) + 1)..Len(fr.context.messages) :
        \E k \in 1..Len(fr.context.messages[m].tool_calls) :
            LET call == fr.context.messages[m].tool_calls[k]
            IN  IsWriteVariable(call) /\ ArgOf(call, "name") = key

\* The sub-agent of a User or Assistant transform returns to it and the
\* output variable is set: the transform is about to insert its value.
ReturnsToOutputRead ==
    /\ Running
    /\ Len(stack) >= 2
    /\ Top.pc = "return"
    /\ stack[Len(stack) - 1].pc = "transform"
    /\ Transforms(stack[Len(stack) - 1])[stack[Len(stack) - 1].tIdx].kind \in { "User", "Assistant" }
    /\ variables[Transforms(stack[Len(stack) - 1])[stack[Len(stack) - 1].tIdx].output].set

\* C36. Transform output freshness: the value a User or Assistant transform
\* reads under its output key and inserts into the context was written by
\* the sub-agent during that transform invocation, never left there by an
\* earlier invocation or by another agent.
C36_OutputFresh ==
    [][ (ReturnsToOutputRead /\ Len(stack') = Len(stack) - 1) =>
          WroteInInvocation(Top,
              Transforms(stack[Len(stack) - 1])[stack[Len(stack) - 1].tIdx].output)
      ]_vars

\* ------------------------------------------------------------------------
\* The splice of a normalised match
\* ------------------------------------------------------------------------

\* The occurrences of the search in the buffer up to line endings, as
\* ranges <<start, end>> of the buffer.
OccurrencesUpToLineEndings(buf, search) ==
    { r \in (0..Len(buf)) \X (0..Len(buf)) :
        /\ r[1] <= r[2]
        /\ NormalizeCrLf(SubSeq(buf, r[1] + 1, r[2])) = NormalizeCrLf(search) }

\* The loop of apply_changes is at a block found only after normalisation.
AtNormalizedBlock ==
    /\ editPc = "blocks"
    /\ blockIdx <= Len(blocks)
    /\ NormalizedHit(result, blocks[blockIdx])

\* C37. Normalised-match splice: when a block's SEARCH is found only after
\* CR/LF normalisation of buffer and SEARCH, what is replaced in the buffer
\* is exactly the buffer's occurrence of SEARCH up to line endings, and
\* everything before and after that occurrence is preserved, also in a
\* buffer with CRLF line endings.
C37_NormalizedSplice ==
    [][ AtNormalizedBlock =>
          /\ editPc' = "blocks"
          /\ \E r \in OccurrencesUpToLineEndings(result, blocks[blockIdx].search) :
                result' = SubSeq(result, 1, r[1]) \o blocks[blockIdx].replace
                          \o SubSeq(result, r[2] + 1, Len(result))
      ]_vars

\* ------------------------------------------------------------------------
\* Properties of OpenRouter::chat (under SpecChat)
\* ------------------------------------------------------------------------

\* One item per event in arrival order: the completion events, and the
\* error when an error ends them.
ExpectedItems ==
    [k \in 1..chatN |-> ResponseItem(k)]
    \o (IF chatEnd = "DONE" THEN <<>> ELSE <<ErrorItem>>)

ChatDelivered == chatPc = "ended" /\ chatOut = ExpectedItems

\* C38. OpenRouter chat always completes: for any finite number of events
\* before the end marker, chat returns a stream to its caller, the stream
\* yields one item per event in arrival order and then ends; the producer
\* never blocks forever on the channel of capacity 100.
C38_ChatCompletes == (chatPc = "loop") ~> ChatDelivered

\* It does when the items are no more than the channel holds.
C38_CompletesWithinCapacity ==
    (chatPc = "loop" /\ Len(ExpectedItems) <= ChannelCapacity) ~> ChatDelivered

\* Nothing is taken from the channel before chat has returned: until then
\* every item sent is still in it.
C38_NoReceiverBeforeReturn ==
    chatPc \in { "loop", "send", "break" } => chatOut = <<>>

C38_ProducerBlocked == chatPc = "send" /\ Len(chatQueue) = ChannelCapacity

\* ------------------------------------------------------------------------
\* Properties of the sequential-thinking server (under SpecThink)
\* ------------------------------------------------------------------------

\* The requests handled so far that were processed successfully.
Processed == SelectSeq(thinkLog, LAMBDA e : e.ok)

\* The branch ids the calls before the n-th processed one supplied with a
\* branching point.
EarlierBranchIds(n) ==
    { Processed[k].input.branch_id[1] :
        k \in { j \in 1..(n - 1) : /\ Processed[j].input.branch_id # None
                                  /\ Processed[j].input.branch_from_thought # None } }

\* C39. Sequential-thinking history accumulates: in the running server the
\* thoughtHistoryLength returned by the n-th successfully processed call is
\* n, its branches list holds every branch id an earlier call supplied, and
\* its totalThoughts is not smaller than its thoughtNumber.
C39_HistoryAccumulates ==
    \A n \in 1..Len(Processed) :
        /\ Processed[n].reply.thoughtHistoryLength = n
        /\ EarlierBranchIds(n) \subseteq Processed[n].reply.branches
        /\ Processed[n].reply.totalThoughts >= Processed[n].reply.thoughtNumber

\* The part that needs no memory of earlier calls.
C39_TotalCoversNumber ==
    \A n \in 1..Len(Processed) :
        /\ Processed[n].reply.totalThoughts >= Processed[n].reply.thoughtNumber
        /\ Processed[n].reply.thoughtNumber = Processed[n].input.thought_number

\* Every call is answered by a server without history.
C39_EveryCallStartsEmpty ==
    /\ tServer = NewServer
    /\ \A n \in 1..Len(Processed) : Processed[n].reply.thoughtHistoryLength = 1

====
